---- MODULE Spec2Model ----
(***************************************************************************)
(* ToC-to-segment resolution of an RWPM audiobook manifest.                *)
(*                                                                         *)
(* Eleven specifications share this module:                                *)
(*   Spec       the Audiobook facade read as the summary command reads it: *)
(*              a parsed manifest and the caches of its cached properties, *)
(*              filled in one pass;                                        *)
(*   SpecLazy   the same facade with each cached property read on its own, *)
(*              in any order and any number of times;                      *)
(*   SpecEntry  one call of audio_segments_for_toc_entry on an arbitrary   *)
(*              (entry, next_entry, tracks) triple;                        *)
(*   SpecReaders  the facade read by several threads at once;              *)
(*   SpecValidate  the validation command on one manifest file;            *)
(*   SpecToken  an OAuthToken read while the clock advances;               *)
(*   SpecWindow  one call of sliding_window;                               *)
(*   SpecPosition  one subtraction of two TrackPositions of the player;    *)
(*   SpecAgree  one entry resolved by get_track_sequence and by the two    *)
(*              later implementations;                                     *)
(*   SpecAuth   OAuthAuth.auth_flow against an arbitrary server;           *)
(*   SpecMeasured  the summary of a manifest whose track files last as     *)
(*              long as declared.                                          *)
(*                                                                         *)
(* Python values are modelled as follows.  A track list index is 0-based,  *)
(* as in the code, and a negative index wraps (PyIndex, PySlice).  An      *)
(* href "<track>#t=<frag>" is the record [track, frag] with frag the       *)
(* sequence of decimal digits after "#t=".  The identity id(entry) of a    *)
(* ToC node is its path in the tree (sequence of child positions).  A      *)
(* list that is None and an empty list are both the empty sequence: the    *)
(* code only tests them for truth (`self.toc or`, `if self.children`).     *)
(* Durations are whole seconds.  A function that raises returns a record   *)
(* whose exc field names the exception.                                    *)
(***************************************************************************)
EXTENDS Integers, Sequences, FiniteSets, TLC

VARIABLES
    manifest,                         \* Audiobook.manifest (frozen)
    effective_toc,                    \* cache of Manifest.effective_toc
    segments_by_toc_id,               \* cache of Audiobook.segments_by_toc_id
    enhanced_toc,                     \* cache of Audiobook.enhanced_toc
    pre_toc_unplayed_audio_segments,  \* cache of the property of that name
    toc_total_duration,               \* cache of Audiobook.toc_total_duration
    toc_actual_total_duration,        \* cache of Audiobook.toc_actual_total_duration
    raised,                           \* exception of the last operation, or "none"
    call,                             \* arguments of the function called on its own
    ret,                              \* result slot of the last call or later read
    readers,                          \* per reader thread: frames and outcome
    validation,                       \* validate-audiobook-manifests: step and errors
    oauth                             \* an OAuthToken, the clock and the last reads

vars == <<manifest, effective_toc, segments_by_toc_id, enhanced_toc,
          pre_toc_unplayed_audio_segments, toc_total_duration,
          toc_actual_total_duration, raised, call, ret, readers, validation, oauth>>

bookVars == <<manifest, effective_toc, segments_by_toc_id, enhanced_toc,
              pre_toc_unplayed_audio_segments, toc_total_duration,
              toc_actual_total_duration, raised>>

(***************************************************************************)
(* Bounds of the model.                                                    *)
(***************************************************************************)
\* Audiobook specifications: a manifest of n tracks and k ToC nodes whose
\* durations and offsets are at most s seconds has n + k + s <= MaxSize.
MaxSize == 5
\* Single-call specification: tracks per list, seconds per track/offset.
MaxCallTracks == 3
MaxCallSeconds == 2
\* Threads that read the cached properties of one Audiobook.
NumReaders == 2
\* OAuth tokens: characters of access_token, largest expires_in, last tick.
MaxTokenLen == 2
MaxExpiresIn == 2
MaxClock == 3
\* sliding_window: items of the iterable, window size.
MaxItems == 7
MaxWindow == 4

(***************************************************************************)
(* Python built-ins.                                                       *)
(***************************************************************************)
None == "None"
\* A cached_property slot (and the result slot of a call): empty until the
\* value is stored, then the one-element sequence holding the value.
Unset == <<>>
Cached(value) == <<value>>
IsSet(slot) == slot # <<>>
ValueOf(slot) == slot[1]

Min(a, b) == IF a < b THEN a ELSE b
Max(a, b) == IF a > b THEN a ELSE b

\* seq[i] with a 0-based, possibly negative index; the caller checks PyInRange.
PyInRange(seq, i) == -Len(seq) <= i /\ i < Len(seq)
PyIndex(seq, i) == IF i >= 0 THEN seq[i + 1] ELSE seq[Len(seq) + i + 1]

\* seq[a:b]
PySliceBound(n, i) == IF i < 0 THEN Max(i + n, 0) ELSE Min(i, n)
\* Mutant of PySlice: the slice stops one element early.
PySlice_StopsEarly(seq, a, b) ==
    LET lo == PySliceBound(Len(seq), a)
        hi == PySliceBound(Len(seq), b) - 1
    IN  IF hi <= lo THEN <<>> ELSE SubSeq(seq, lo + 1, hi)
PySlice(seq, a, b) ==
    LET lo == PySliceBound(Len(seq), a)
        hi == PySliceBound(Len(seq), b)
    IN  IF hi <= lo THEN <<>> ELSE SubSeq(seq, lo + 1, hi)

\* int(text) of a string of decimal digits
RECURSIVE PyInt(_)
PyInt(digits) ==
    IF digits = <<>> THEN 0
    ELSE 10 * PyInt(SubSeq(digits, 1, Len(digits) - 1)) + digits[Len(digits)]

RECURSIVE SumSeq(_)
SumSeq(s) == IF s = <<>> THEN 0 ELSE Head(s) + SumSeq(Tail(s))

Range(s) == {s[i] : i \in DOMAIN s}

(***************************************************************************)
(* models.api.rwpm_audiobook                                               *)
(***************************************************************************)
\* AudioTrack; actual_duration = 0 when the track was not measured.
AudioTrack(title, href, duration, actual_duration) ==
    [title |-> title, href |-> href, duration |-> duration,
     actual_duration |-> actual_duration]

\* The text "<track>#t=<frag>".
Href(track, frag) == [track |-> track, frag |-> frag]

\* ToCEntry(href=..., title=..., children=...) followed by the model
\* validator computed_values: split at "#t=" and int() of the fragment.
ToCEntry(id, href, title, children) ==
    [id |-> id, href |-> href, title |-> title, children |-> children,
     track_href |-> href.track, track_offset |-> PyInt(href.frag)]

\* Mutant of from_track: the track's own title is ignored.
from_track_DefaultTitleOnly(id, track, default_title) ==
    ToCEntry(id, Href(track.href, <<0>>), default_title, <<>>)
\* ToCEntry.from_track: href "<track.href>#t=0", title track.title or default.
from_track(id, track, default_title) ==
    ToCEntry(id,
             Href(track.href, <<0>>),
             IF track.title \notin {None, ""} THEN track.title ELSE default_title,
             <<>>)

(***************************************************************************)
(* models.internal.rwpm_audio.audio_segment                                *)
(***************************************************************************)
\* Mutant of AudioSegment: the declared duration is taken from end_actual.
AudioSegment_MeasuredDuration(track, start, end, end_actual) ==
    [track |-> track, start |-> start, end |-> end, end_actual |-> end_actual,
     duration |-> end_actual - start, actual_duration |-> end_actual - start]
\* Mutant of AudioSegment: start and end are swapped.
AudioSegment_Swapped(track, start, end, end_actual) ==
    [track |-> track, start |-> end, end |-> start, end_actual |-> end_actual,
     duration |-> start - end, actual_duration |-> end_actual - end]
\* Mutant of AudioSegment: __post_init__ writes the declared duration into
\* the track it was given when the track was not measured.
AudioSegment_FillsTrack(track, start, end, end_actual) ==
    [track |-> [track EXCEPT !.actual_duration =
                              IF @ = 0 THEN track.duration ELSE @],
     start |-> start, end |-> end, end_actual |-> end_actual,
     duration |-> end - start, actual_duration |-> end_actual - start]
\* Mutant of AudioSegment: the measured duration is end_actual, as if every
\* segment started at 0.
AudioSegment_ActualFromZero(track, start, end, end_actual) ==
    [track |-> track, start |-> start, end |-> end, end_actual |-> end_actual,
     duration |-> end - start, actual_duration |-> end_actual]
\* AudioSegment(track, start, end, end_actual) with __post_init__.
AudioSegment(track, start, end, end_actual) ==
    [track |-> track, start |-> start, end |-> end, end_actual |-> end_actual,
     duration |-> end - start, actual_duration |-> end_actual - start]

\* {t.href: i for i, t in enumerate(all_tracks)}: a later track wins.
track_index_by_href(all_tracks) ==
    [h \in {all_tracks[i].href : i \in DOMAIN all_tracks} |->
        CHOOSE i \in 0..(Len(all_tracks) - 1) :
            /\ all_tracks[i + 1].href = h
            /\ \A j \in (i + 1)..(Len(all_tracks) - 1) : all_tracks[j + 1].href # h]

Raise(exc) == [exc |-> exc]

\* Mutant of BoundaryBranch: the else branch (rule 4) is missing.
BoundaryBranch_NoPrevious(entry, next_entry) ==
    IF next_entry = <<>> THEN "last" ELSE "next"
\* Mutant of BoundaryBranch: offset 0 is tested before the same-track test.
BoundaryBranch_OffsetFirst(entry, next_entry) ==
    IF next_entry = <<>> THEN "last"
    ELSE IF next_entry[1].track_offset = 0 THEN "previous"
    ELSE "next"
\* Mutant of BoundaryBranch: a next entry at offset 0 of another track is
\* taken for the end of the book.
BoundaryBranch_PreviousAsLast(entry, next_entry) ==
    IF next_entry = <<>> THEN "last"
    ELSE IF entry.track_href = next_entry[1].track_href
            \/ next_entry[1].track_offset # 0 THEN "next"
    ELSE "last"
\* Which branch of _toc_track_boundaries decides the end of the span.
BoundaryBranch(entry, next_entry) ==
    IF next_entry = <<>> THEN "last"
    ELSE IF entry.track_href = next_entry[1].track_href
            \/ next_entry[1].track_offset # 0 THEN "next"
    ELSE "previous"

\* Mutant of LastTrackIndex: off by one, the last entry stops one track early.
LastTrackIndex_OffByOne(all_tracks) == Len(all_tracks) - 2
\* len(all_tracks) - 1
LastTrackIndex(all_tracks) == Len(all_tracks) - 1

\* _toc_track_boundaries(entry, next_entry, all_tracks); next_entry is <<>>
\* for None and <<e>> for the entry e.
toc_track_boundaries(entry, next_entry, all_tracks) ==
    LET index == track_index_by_href(all_tracks)
        branch == BoundaryBranch(entry, next_entry)
        end_track_index ==
            CASE branch = "last" -> LastTrackIndex(all_tracks)
              [] branch = "next" -> index[next_entry[1].track_href]
              [] OTHER -> index[next_entry[1].track_href] - 1
        end_track_offset ==
            IF branch = "next" THEN next_entry[1].track_offset
            ELSE PyIndex(all_tracks, end_track_index).duration
        end_track_actual_offset ==
            IF branch = "next" THEN next_entry[1].track_offset
            ELSE PyIndex(all_tracks, end_track_index).actual_duration
    IN  IF branch = "last" /\ all_tracks = <<>> THEN Raise("IndexError")
        ELSE IF branch # "last" /\ next_entry[1].track_href \notin DOMAIN index
            THEN Raise("KeyError")
        ELSE IF entry.track_href \notin DOMAIN index THEN Raise("KeyError")
        ELSE [exc |-> "none",
              toc_entry |-> entry.id,
              first_track_index |-> index[entry.track_href],
              first_track_start_offset |-> entry.track_offset,
              last_track_index |-> end_track_index,
              last_track_end_offset |-> end_track_offset,
              last_track_end_actual_offset |-> end_track_actual_offset]

\* Mutant of SegmentsOfBoundaries: the tracks strictly between the first and
\* the last are left out.
SegmentsOfBoundaries_NoIntermediate(boundaries, tracks) ==
    LET same == boundaries.first_track_index = boundaries.last_track_index
        first_track == PyIndex(tracks, boundaries.first_track_index)
    IN  IF same
        THEN <<AudioSegment(first_track, boundaries.first_track_start_offset,
                            boundaries.last_track_end_offset,
                            boundaries.last_track_end_actual_offset)>>
        ELSE <<AudioSegment(first_track, boundaries.first_track_start_offset,
                            first_track.duration, first_track.actual_duration),
               AudioSegment(PyIndex(tracks, boundaries.last_track_index), 0,
                            boundaries.last_track_end_offset,
                            boundaries.last_track_end_actual_offset)>>
\* The list assembled from resolved boundaries (lines 95-137).
SegmentsOfBoundaries(boundaries, tracks) ==
    LET same == boundaries.first_track_index = boundaries.last_track_index
        first_track == PyIndex(tracks, boundaries.first_track_index)
        first_segment ==
            AudioSegment(first_track,
                         boundaries.first_track_start_offset,
                         IF same THEN boundaries.last_track_end_offset
                         ELSE first_track.duration,
                         IF same THEN boundaries.last_track_end_actual_offset
                         ELSE first_track.actual_duration)
        last_segment ==
            IF ~same
            THEN <<AudioSegment(PyIndex(tracks, boundaries.last_track_index), 0,
                                boundaries.last_track_end_offset,
                                boundaries.last_track_end_actual_offset)>>
            ELSE <<>>
        intermediate_tracks ==
            PySlice(tracks, boundaries.first_track_index + 1,
                    boundaries.last_track_index)
        intermediate_tracks_segments ==
            [i \in DOMAIN intermediate_tracks |->
                AudioSegment(intermediate_tracks[i], 0,
                             intermediate_tracks[i].duration,
                             intermediate_tracks[i].actual_duration)]
    IN  <<first_segment>> \o intermediate_tracks_segments \o last_segment

\* Mutant of SequenceOfBoundaries: an entry whose boundaries cannot be
\* resolved is skipped with an empty segment list.
SequenceOfBoundaries_SkipUnresolved(entry, boundaries, tracks) ==
    [exc |-> "none",
     toc_entry |-> entry.id,
     boundaries |-> boundaries,
     audio_segments |-> IF boundaries.exc # "none" THEN <<>>
                        ELSE SegmentsOfBoundaries(boundaries, tracks)]

\* The ToCAudioSegmentSequence built from the boundaries (lines 95-138), or
\* the exception that resolving the boundaries raised.
SequenceOfBoundaries(entry, boundaries, tracks) ==
    IF boundaries.exc # "none" THEN Raise(boundaries.exc)
    ELSE [exc |-> "none",
          toc_entry |-> entry.id,
          boundaries |-> boundaries,
          audio_segments |-> SegmentsOfBoundaries(boundaries, tracks)]

\* audio_segments_for_toc_entry(entry, next_entry, tracks)
audio_segments_for_toc_entry(entry, next_entry, tracks) ==
    SequenceOfBoundaries(entry, toc_track_boundaries(entry, next_entry, tracks), tracks)

(***************************************************************************)
(* utils.iteration                                                         *)
(***************************************************************************)
\* deque.append on a deque of maxlen size
DequeAppend(window, x, size) ==
    IF Len(window) < size THEN Append(window, x) ELSE Append(Tail(window), x)

RECURSIVE SlideOver(_, _, _)
\* for x in it: window.append(x); yield tuple(window)
SlideOver(window, rest, size) ==
    IF rest = <<>> THEN <<>>
    ELSE LET w == DequeAppend(window, Head(rest), size)
         IN  <<w>> \o SlideOver(w, Tail(rest), size)

RECURSIVE SlideNulls(_, _, _)
\* for _ in range(nulls): window.append(None); yield tuple(window)
SlideNulls(window, nulls, size) ==
    IF nulls <= 0 THEN <<>>
    ELSE LET w == DequeAppend(window, <<>>, size)
         IN  <<w>> \o SlideNulls(w, nulls - 1, size)

\* sliding_window(iterable, size, nulls=nulls): the windows it yields.  An
\* item x is the one-element sequence <<x>>, None is <<>>.
sliding_window(iterable, size, nulls) ==
    LET items == [i \in DOMAIN iterable |-> <<iterable[i]>>]
        n == Min(size, nulls)
        window == SubSeq(items, 1, Min(size - 1, Len(items)))
        rest == SubSeq(items, Len(window) + 1, Len(items))
        full == SlideOver(window, rest, size)
        last == IF full = <<>> THEN window ELSE full[Len(full)]
    IN  full \o SlideNulls(last, n, size)

(***************************************************************************)
(* Playback order.                                                         *)
(***************************************************************************)
RECURSIVE entry_toc_in_playback_order_ChildrenFirst(_)
RECURSIVE entry_toc_in_playback_order(_)
RECURSIVE toc_in_playback_order(_)
\* Mutant of entry_toc_in_playback_order: the children are yielded before
\* the entry.
entry_toc_in_playback_order_ChildrenFirst(entry) ==
    toc_in_playback_order(entry.children) \o <<entry>>
\* ToCEntry.toc_in_playback_order: the entry, then each child's sequence.
entry_toc_in_playback_order(entry) ==
    <<entry>> \o toc_in_playback_order(entry.children)

\* Manifest.toc_in_playback_order over a list of entries.
toc_in_playback_order(toc) ==
    IF toc = <<>> THEN <<>>
    ELSE entry_toc_in_playback_order(Head(toc)) \o toc_in_playback_order(Tail(toc))

RECURSIVE entry_enhanced_toc_in_playback_order(_)
RECURSIVE enhanced_toc_in_playback_order(_)
\* EnhancedToCEntry.enhanced_toc_in_playback_order, over sub_entries.
entry_enhanced_toc_in_playback_order(entry) ==
    <<entry>> \o enhanced_toc_in_playback_order(entry.sub_entries)

\* Audiobook.enhanced_toc_in_playback_order over a list of enhanced entries.
enhanced_toc_in_playback_order(toc) ==
    IF toc = <<>> THEN <<>>
    ELSE entry_enhanced_toc_in_playback_order(Head(toc))
             \o enhanced_toc_in_playback_order(Tail(toc))

(***************************************************************************)
(* Manifest                                                                *)
(***************************************************************************)
\* f"Track {n}"
DefaultTitles ==
    <<"Track 1", "Track 2", "Track 3", "Track 4", "Track 5", "Track 6", "Track 7",
      "Track 8">>

\* Manifest.effective_toc: self.toc or one entry per track.
EffectiveToc(m) ==
    IF m.toc # <<>> THEN m.toc
    ELSE [n \in DOMAIN m.reading_order |->
             from_track(<<n>>, m.reading_order[n], DefaultTitles[n])]

(***************************************************************************)
(* Audiobook                                                               *)
(***************************************************************************)
\* One yielded sequence followed by the later ones; the first exception
\* ends the generator.
YieldThen(one, more) ==
    IF one.exc # "none" THEN Raise(one.exc)
    ELSE IF more.exc # "none" THEN Raise(more.exc)
    ELSE [exc |-> "none", sequences |-> <<one>> \o more.sequences]

RECURSIVE SegmentsOfWindows_SubtreeEndUnbounded(_, _)
\* Mutant of SegmentsOfWindows: the last node of a subtree is resolved as if
\* nothing followed it.
SegmentsOfWindows_SubtreeEndUnbounded(windows, all_tracks) ==
    IF windows = <<>> THEN [exc |-> "none", sequences |-> <<>>]
    ELSE IF Len(Head(windows)) # 2 THEN Raise("ValueError")
    ELSE IF Head(windows)[1] = <<>> THEN Raise("ValueError")
    ELSE YieldThen(audio_segments_for_toc_entry(
                       Head(windows)[1][1],
                       IF Head(windows)[2] # <<>>
                          /\ Len(Head(windows)[2][1].id) < Len(Head(windows)[1][1].id)
                       THEN <<>> ELSE Head(windows)[2],
                       all_tracks),
                   SegmentsOfWindows_SubtreeEndUnbounded(Tail(windows), all_tracks))

RECURSIVE SegmentsOfWindows(_, _)
\* The loop of audio_segments_for_all_toc_entries over the windows.
SegmentsOfWindows(windows, all_tracks) ==
    IF windows = <<>> THEN [exc |-> "none", sequences |-> <<>>]
    ELSE IF Len(Head(windows)) # 2 THEN Raise("ValueError")  \* entry, next_entry = w
    ELSE IF Head(windows)[1] = <<>> THEN Raise("ValueError")
    ELSE YieldThen(audio_segments_for_toc_entry(Head(windows)[1][1], Head(windows)[2],
                                                all_tracks),
                   SegmentsOfWindows(Tail(windows), all_tracks))

\* audio_segments_for_all_toc_entries(all_toc_entries, all_tracks)
audio_segments_for_all_toc_entries(all_toc_entries, all_tracks) ==
    SegmentsOfWindows(sliding_window(all_toc_entries, 2, 1), all_tracks)

\* Mutant of DictOfSequences: the key is the node's position among its
\* siblings, which nodes of different lists share.
DictOfSequences_BySiblingPosition(all) ==
    IF all.exc # "none" THEN Raise(all.exc)
    ELSE [exc |-> "none",
          value |-> [id \in {all.sequences[i].toc_entry : i \in DOMAIN all.sequences} |->
                       all.sequences[CHOOSE i \in DOMAIN all.sequences :
                                       /\ all.sequences[i].toc_entry[Len(all.sequences[i].toc_entry)]
                                              = id[Len(id)]
                                       /\ \A j \in DOMAIN all.sequences :
                                             all.sequences[j].toc_entry[Len(all.sequences[j].toc_entry)]
                                                 = id[Len(id)] => j <= i]
                          .audio_segments]]

\* The dict comprehension {id(s.toc_entry): s.audio_segments for s in all}: a
\* later sequence of the same entry wins.
DictOfSequences(all) ==
    IF all.exc # "none" THEN Raise(all.exc)
    ELSE [exc |-> "none",
          value |-> [id \in {all.sequences[i].toc_entry : i \in DOMAIN all.sequences} |->
                       all.sequences[CHOOSE i \in DOMAIN all.sequences :
                                       /\ all.sequences[i].toc_entry = id
                                       /\ \A j \in DOMAIN all.sequences :
                                             all.sequences[j].toc_entry = id => j <= i]
                          .audio_segments]]

\* Audiobook.segments_by_toc_id: {id(entry): segments}.
SegmentsByTocId(m, toc) ==
    DictOfSequences(audio_segments_for_all_toc_entries(toc_in_playback_order(toc),
                                                       m.reading_order))

\* Mutant of EnhancedToCEntry: the durations of a node include those of its
\* children.
EnhancedToCEntry_WithChildren(entry, depth, segments, sub_entries) ==
    [id |-> entry.id, href |-> entry.href, title |-> entry.title,
     track_href |-> entry.track_href, track_offset |-> entry.track_offset,
     depth |-> depth,
     duration |-> SumSeq([i \in DOMAIN segments |-> segments[i].duration])
                  + SumSeq([i \in DOMAIN sub_entries |-> sub_entries[i].duration]),
     actual_duration |-> SumSeq([i \in DOMAIN segments |-> segments[i].actual_duration])
                  + SumSeq([i \in DOMAIN sub_entries |-> sub_entries[i].actual_duration]),
     audio_segments |-> segments,
     sub_entries |-> sub_entries]
\* EnhancedToCEntry(depth=..., duration=..., ..., **entry.dict()); the copy of
\* the plain children that entry.dict() carries is never read and is left out.
EnhancedToCEntry(entry, depth, segments, sub_entries) ==
    [id |-> entry.id, href |-> entry.href, title |-> entry.title,
     track_href |-> entry.track_href, track_offset |-> entry.track_offset,
     depth |-> depth,
     duration |-> SumSeq([i \in DOMAIN segments |-> segments[i].duration]),
     actual_duration |-> SumSeq([i \in DOMAIN segments |-> segments[i].actual_duration]),
     audio_segments |-> segments,
     sub_entries |-> sub_entries]

RECURSIVE generate_enhanced_toc(_, _, _)
\* Audiobook.generate_enhanced_toc(toc, depth) reading segments_by_toc_id.
generate_enhanced_toc(toc, depth, by_id) ==
    [i \in DOMAIN toc |->
        EnhancedToCEntry(toc[i], depth, by_id[toc[i].id],
                         generate_enhanced_toc(toc[i].children, depth + 1, by_id))]

\* The .audio_segments of a returned sequence.
SegmentsOf(r) ==
    IF r.exc # "none" THEN Raise(r.exc) ELSE [exc |-> "none", value |-> r.audio_segments]

\* Mutant of PreTocUnplayedAudioSegments: the first entry's track, not its
\* href, is compared with the first track's.
PreTocUnplayedAudioSegments_TrackOnly(m, toc) ==
    IF m.reading_order = <<>> THEN Raise("IndexError")
    ELSE IF toc = <<>> THEN Raise("IndexError")
    ELSE LET toc_from_first_track == from_track(<<0>>, m.reading_order[1], "Track")
             first_effective_toc == toc[1]
         IN  IF first_effective_toc.track_href = toc_from_first_track.track_href
             THEN [exc |-> "none", value |-> <<>>]
             ELSE SegmentsOf(audio_segments_for_toc_entry(toc_from_first_track,
                                                          <<first_effective_toc>>,
                                                          m.reading_order))
\* Audiobook.pre_toc_unplayed_audio_segments
PreTocUnplayedAudioSegments(m, toc) ==
    IF m.reading_order = <<>> THEN Raise("IndexError")
    ELSE IF toc = <<>> THEN Raise("IndexError")
    ELSE LET toc_from_first_track == from_track(<<0>>, m.reading_order[1], "Track")
             first_effective_toc == toc[1]
         IN  IF first_effective_toc.href = toc_from_first_track.href
             THEN [exc |-> "none", value |-> <<>>]
             ELSE SegmentsOf(audio_segments_for_toc_entry(toc_from_first_track,
                                                          <<first_effective_toc>>,
                                                          m.reading_order))

RECURSIVE total_duration(_)
\* EnhancedToCEntry.total_duration: sum(toc.duration for toc in
\* self.enhanced_toc_in_playback_order)
total_duration(entry) ==
    entry.duration
    + SumSeq([i \in DOMAIN entry.sub_entries |-> total_duration(entry.sub_entries[i])])

\* Mutant of TocTotalDuration: the entries' descendants are left out.
TocTotalDuration_TopLevelOnly(enhanced) ==
    SumSeq([i \in DOMAIN enhanced |-> enhanced[i].duration])
\* sum(toc.duration for toc in self.enhanced_toc_in_playback_order)
TocTotalDuration(enhanced) ==
    LET all == enhanced_toc_in_playback_order(enhanced)
    IN  SumSeq([i \in DOMAIN all |-> all[i].duration])

\* sum(toc.actual_duration for toc in self.enhanced_toc_in_playback_order)
TocActualTotalDuration(enhanced) ==
    LET all == enhanced_toc_in_playback_order(enhanced)
    IN  SumSeq([i \in DOMAIN all |-> all[i].actual_duration])

(***************************************************************************)
(* Inputs.                                                                 *)
(***************************************************************************)
\* The hrefs of the tracks, by position; track hrefs are unique.
TrackHrefNames ==
    <<"a.mp3", "b.mp3", "c.mp3", "d.mp3", "e.mp3", "f.mp3", "g.mp3", "h.mp3">>

\* How the tracks were measured: not at all (actual_duration stays 0), or
\* measured with the declared duration, or measured one second longer.
MeasuredModes == {"absent", "exact", "longer"}
Measured(duration, mode) ==
    CASE mode = "absent" -> 0
      [] mode = "exact" -> duration
      [] OTHER -> duration + 1

\* The track lists of n tracks with declared durations 0..seconds.
TrackLists(n, seconds, modes) ==
    {[i \in 1..n |-> AudioTrack(None, TrackHrefNames[i], d[i], Measured(d[i], m))] :
        d \in [1..n -> 0..seconds], m \in modes}

\* The entries that reference one of the first n hrefs at offset 0..seconds.
Entries(id, n, seconds) ==
    {ToCEntry(id, Href(TrackHrefNames[i], <<o>>), "Chapter", <<>>) :
        i \in 1..n, o \in 0..seconds}

\* The rule-4 example: A at a.mp3#t=8, B at b.mp3#t=0, a.mp3 lasts 10 seconds.
ExampleCalls ==
    {[entry |-> ToCEntry(<<1>>, Href("a.mp3", <<8>>), "A", <<>>),
      next_entry |-> <<ToCEntry(<<2>>, Href("b.mp3", <<0>>), "B", <<>>)>>,
      tracks |-> <<AudioTrack(None, "a.mp3", 10, 0), AudioTrack(None, "b.mp3", 7, 0)>>]}

\* The calls of audio_segments_for_toc_entry: any track list, any entry and
\* next entry (or none) whose href is one of the tracks' or one more.
Calls ==
    ExampleCalls \cup
    UNION {[entry : Entries(<<1>>, n + 1, MaxCallSeconds),
            next_entry : {<<>>} \cup {<<e>> : e \in Entries(<<2>>, n + 1, MaxCallSeconds)},
            tracks : TrackLists(n, MaxCallSeconds, MeasuredModes)] :
           n \in 0..MaxCallTracks}

\* The trees a parsed ToC can be: lists of entries with k nodes in all, each
\* entry one of hrefs; the first entry of the list is child number `start` of
\* the node with path `prefix`.
RECURSIVE Forests(_, _, _, _)
Forests(k, prefix, start, hrefs) ==
    IF k = 0 THEN {<<>>}
    ELSE UNION {
            {<<ToCEntry(prefix \o <<start>>, h, "Chapter", c)>> \o rest :
                h \in hrefs,
                c \in Forests(j - 1, prefix \o <<start>>, 1, hrefs),
                rest \in Forests(k - j, prefix, start + 1, hrefs)} :
            j \in 1..k}

\* The hrefs of a ToC written for n tracks (for no track: the first name).
TocHrefs(n, seconds) ==
    {Href(TrackHrefNames[i], <<o>>) : i \in 1..Max(n, 1), o \in 0..seconds}

BookModes == {"absent", "longer"}

\* Track titles are read by ToCEntry.from_track alone, so they vary in the
\* manifests without ToC: absent, empty and present titles in rotation.
TitleCycle == <<None, "", "Intro">>
TitledTrackLists(n, seconds, modes) ==
    {[i \in 1..n |-> AudioTrack(TitleCycle[((i + shift) % 3) + 1], TrackHrefNames[i],
                                d[i], Measured(d[i], m))] :
        shift \in 0..2, d \in [1..n -> 0..seconds], m \in modes}

Entry1(path, track, offset, children) ==
    ToCEntry(path, Href(track, <<offset>>), "Chapter", children)

\* The manifests of the specification's examples.
LeadingAudioExample ==
    [reading_order |-> <<AudioTrack(None, "a.mp3", 30, 0)>>,
     toc |-> <<Entry1(<<1>>, "a.mp3", 5, <<>>)>>]
SynthesizedExample ==
    [reading_order |-> <<AudioTrack("Intro", "a.mp3", 10, 0), AudioTrack(None, "b.mp3", 20, 0),
                         AudioTrack("", "c.mp3", 15, 0), AudioTrack(None, "d.mp3", 5, 0)>>,
     toc |-> <<>>]
Rule4Example ==
    [reading_order |-> <<AudioTrack(None, "a.mp3", 10, 0), AudioTrack(None, "b.mp3", 7, 0)>>,
     toc |-> <<Entry1(<<1>>, "a.mp3", 8, <<>>), Entry1(<<2>>, "b.mp3", 0, <<>>)>>]
NestedExample ==
    [reading_order |-> <<AudioTrack(None, "a.mp3", 4, 5), AudioTrack(None, "b.mp3", 3, 3),
                         AudioTrack(None, "c.mp3", 5, 0)>>,
     toc |-> <<Entry1(<<1>>, "a.mp3", 1,
                      <<Entry1(<<1, 1>>, "a.mp3", 3, <<>>),
                        Entry1(<<1, 2>>, "c.mp3", 2, <<>>)>>),
               Entry1(<<2>>, "c.mp3", 4, <<>>)>>]
\* A first entry written "a.mp3#t=00": offset 0 of the first track, in an
\* href that is not the text "a.mp3#t=0".
PaddedOffsetExample ==
    [reading_order |-> <<AudioTrack(None, "a.mp3", 30, 0)>>,
     toc |-> <<ToCEntry(<<1>>, Href("a.mp3", <<0, 0>>), "Chapter", <<>>)>>]
ExampleManifests ==
    {LeadingAudioExample, SynthesizedExample, Rule4Example, NestedExample,
     PaddedOffsetExample}

\* The manifests of n tracks with an explicit ToC of k nodes.
ExplicitManifests(n, k) ==
    IF n + k > MaxSize THEN {} ELSE
    [reading_order : TrackLists(n, MaxSize - n - k, BookModes),
     toc : Forests(k, <<>>, 1, TocHrefs(n, MaxSize - n - k))]

\* The manifests of n tracks without ToC.
SynthesizedManifests(n) ==
    [reading_order : TitledTrackLists(n, MaxSize - n, BookModes), toc : {<<>>}]

Manifests ==
    ExampleManifests
    \cup UNION {ExplicitManifests(n, k) : n \in 0..(MaxSize - 1), k \in 1..MaxSize}
    \cup UNION {SynthesizedManifests(n) : n \in 0..MaxSize}

NoManifest == [reading_order |-> <<>>, toc |-> <<>>]
NoReaders == <<>>
NoValidation == [step |-> "none", checked |-> 0, errors |-> <<>>]
NoToken == <<>>
NoCall == [entry |-> ToCEntry(<<1>>, Href("a.mp3", <<0>>), "", <<>>),
           next_entry |-> <<>>, tracks |-> <<>>]

(***************************************************************************)
(* SpecEntry: one call of audio_segments_for_toc_entry.                    *)
(***************************************************************************)
InitEntry ==
    /\ call \in Calls
    /\ ret = Unset
    /\ manifest = NoManifest
    /\ effective_toc = Unset
    /\ segments_by_toc_id = Unset
    /\ enhanced_toc = Unset
    /\ pre_toc_unplayed_audio_segments = Unset
    /\ toc_total_duration = Unset
    /\ toc_actual_total_duration = Unset
    /\ raised = "none"
    /\ readers = NoReaders
    /\ validation = NoValidation
    /\ oauth = NoToken

ResolveEntry ==
    /\ ret = Unset
    /\ ret' = Cached(audio_segments_for_toc_entry(call.entry, call.next_entry,
                                                   call.tracks))
    /\ UNCHANGED <<call, readers, validation, oauth, bookVars>>

NextEntry == ResolveEntry

SpecEntry == InitEntry /\ [][NextEntry]_vars

(***************************************************************************)
(* Claims about one call (SpecEntry).                                      *)
(***************************************************************************)
Returned == IsSet(ret) /\ ValueOf(ret).exc = "none"
Result == ValueOf(ret)
Bounds == ValueOf(ret).boundaries
NextOfCall == call.next_entry[1]
\* 0-based position of the track an entry references.
PositionOf(entry) == track_index_by_href(call.tracks)[entry.track_href]
\* The (track, start, end) of a segment.
Range3(segment) == <<segment.track, segment.start, segment.end>>
FullTrack(track) == <<track, 0, track.duration>>
\* The ranges of a list of segments, in order.
Ranges(segments) == [i \in DOMAIN segments |-> Range3(segments[i])]

Rule4Case ==
    /\ call.next_entry # <<>>
    /\ NextOfCall.track_href # call.entry.track_href
    /\ NextOfCall.track_offset = 0

Rule23Case ==
    /\ call.next_entry # <<>>
    /\ \/ NextOfCall.track_href = call.entry.track_href
       \/ NextOfCall.track_offset # 0

\* C5: when a next entry exists and is on the same track (any offset, 0
\* included) or on a different track at a non-zero offset, the span ends on
\* the next entry's track at exactly the next entry's offset.
C5_Rules23EndAtNextEntry ==
    (Returned /\ Rule23Case) =>
        /\ Bounds.last_track_index = PositionOf(NextOfCall)
        /\ Bounds.last_track_end_offset = NextOfCall.track_offset
        /\ Range3(Result.audio_segments[Len(Result.audio_segments)])[1] =
               call.tracks[PositionOf(NextOfCall) + 1]
        /\ Result.audio_segments[Len(Result.audio_segments)].end =
               NextOfCall.track_offset

\* The next entry sits on the entry's own track at offset 0, and that track
\* is not the first one.
C5_Witness ==
    /\ Returned
    /\ call.next_entry # <<>>
    /\ NextOfCall.track_href = call.entry.track_href
    /\ NextOfCall.track_offset = 0
    /\ PositionOf(call.entry) >= 1
    /\ call.entry.track_offset = 0

\* C6: an entry without next entry spans from its own (track, offset) to the
\* last track's full declared duration: the rest of its own track, then
\* every later track in full.
C6_LastEntrySpansToTheEnd ==
    (Returned /\ call.next_entry = <<>>) =>
        LET first == PositionOf(call.entry)
            n == Len(call.tracks)
        IN  /\ Bounds.first_track_index = first
            /\ Bounds.first_track_start_offset = call.entry.track_offset
            /\ Bounds.last_track_index = n - 1
            /\ Bounds.last_track_end_offset = call.tracks[n].duration
            /\ Ranges(Result.audio_segments) =
                   [k \in 1..(n - first) |->
                       IF k = 1
                       THEN <<call.tracks[first + 1], call.entry.track_offset,
                              call.tracks[first + 1].duration>>
                       ELSE FullTrack(call.tracks[first + k])]

\* A last entry that starts inside the first of three tracks.
C6_Witness ==
    /\ Returned /\ call.next_entry = <<>>
    /\ Len(call.tracks) = 3
    /\ PositionOf(call.entry) = 0
    /\ call.entry.track_offset = 1
    /\ call.tracks[1].duration = 2
    /\ Len(Result.audio_segments) = 3

\* C7: for boundaries with first <= last the list has last - first + 1
\* segments in track order: {first, firstOffset, lastOffset} alone when
\* first = last; otherwise {first, firstOffset, duration(first)}, one full
\* segment per track strictly between, then {last, 0, lastOffset}.
C7_SegmentAssembly ==
    (Returned /\ 0 <= Bounds.first_track_index
              /\ Bounds.first_track_index <= Bounds.last_track_index) =>
        LET first == Bounds.first_track_index
            last == Bounds.last_track_index
        IN  Ranges(Result.audio_segments) =
                [k \in 1..(last - first + 1) |->
                    CASE first = last ->
                            <<call.tracks[first + 1], Bounds.first_track_start_offset,
                              Bounds.last_track_end_offset>>
                      [] first # last /\ k = 1 ->
                            <<call.tracks[first + 1], Bounds.first_track_start_offset,
                              call.tracks[first + 1].duration>>
                      [] first # last /\ k = last - first + 1 ->
                            <<call.tracks[last + 1], 0, Bounds.last_track_end_offset>>
                      [] OTHER -> FullTrack(call.tracks[first + k])]

\* An entry spanning three tracks: partial first, full middle, partial last.
C7_Witness ==
    /\ Returned
    /\ Bounds.first_track_index = 0
    /\ Bounds.last_track_index = 2
    /\ Bounds.first_track_start_offset = 1
    /\ Bounds.last_track_end_offset = 1
    /\ call.tracks[1].duration = 2
    /\ call.tracks[3].duration = 2
    /\ Len(Result.audio_segments) = 3

(***************************************************************************)
(* Spec: the Audiobook of one manifest and its cached properties.          *)
(***************************************************************************)
\* Manifest(...) runs validate_model, which walks toc_in_playback_order and
\* so fills the effective_toc cache; Audiobook(manifest) computes nothing.
Init ==
    /\ manifest \in Manifests
    /\ effective_toc = Cached(EffectiveToc(manifest))
    /\ segments_by_toc_id = Unset
    /\ enhanced_toc = Unset
    /\ pre_toc_unplayed_audio_segments = Unset
    /\ toc_total_duration = Unset
    /\ toc_actual_total_duration = Unset
    /\ raised = "none"
    /\ call = NoCall
    /\ ret = Unset
    /\ readers = NoReaders
    /\ validation = NoValidation
    /\ oauth = NoToken

\* Mutant of ReadSegmentsByTocId: the cached dict holds iterators that the
\* first read has consumed.
ReadSegmentsByTocId_Consumed(m, toc, slot) ==
    IF IsSet(slot)
    THEN [exc |-> "none", value |-> [id \in DOMAIN ValueOf(slot) |-> <<>>]]
    ELSE SegmentsByTocId(m, toc)

\* What reading segments_by_toc_id returns: the cached value, or the value
\* computed now.
ReadSegmentsByTocId(m, toc, slot) ==
    IF IsSet(slot) THEN [exc |-> "none", value |-> ValueOf(slot)]
    ELSE SegmentsByTocId(m, toc)

\* What reading enhanced_toc returns, given what segments_by_toc_id returned.
\* generate_enhanced_toc reads segments_by_toc_id once per entry, so for an
\* empty effective ToC it returns [] without reading it.
ReadEnhancedToc(toc, slot, by_id) ==
    IF IsSet(slot) THEN [exc |-> "none", value |-> ValueOf(slot)]
    ELSE IF toc = <<>> THEN [exc |-> "none", value |-> <<>>]
    ELSE IF by_id.exc # "none" THEN Raise(by_id.exc)
    ELSE [exc |-> "none", value |-> generate_enhanced_toc(toc, 0, by_id.value)]

\* A cached_property stores the value its function returned and nothing when
\* the function raised.
Store(slot, result) == IF result.exc = "none" THEN Cached(result.value) ELSE slot

\* The segments_by_toc_id cache after enhanced_toc was read: it was read,
\* and so filled, only if enhanced_toc had to be generated for some entry.
StoreIfRead(toc, enhanced_slot, slot, by_id) ==
    IF IsSet(enhanced_slot) \/ toc = <<>> THEN slot ELSE Store(slot, by_id)

\* The cached properties of an Audiobook.
Properties ==
    {"segments_by_toc_id", "enhanced_toc", "pre_toc_unplayed_audio_segments",
     "toc_total_duration", "toc_actual_total_duration"}

\* The cache of a property.
CacheOf(p) ==
    CASE p = "segments_by_toc_id" -> segments_by_toc_id
      [] p = "enhanced_toc" -> enhanced_toc
      [] p = "pre_toc_unplayed_audio_segments" -> pre_toc_unplayed_audio_segments
      [] p = "toc_total_duration" -> toc_total_duration
      [] OTHER -> toc_actual_total_duration

\* audiobook.segments_by_toc_id, first read
GetSegmentsByTocId ==
    /\ ~IsSet(segments_by_toc_id)
    /\ \E by_id \in {ReadSegmentsByTocId(manifest, ValueOf(effective_toc),
                                           segments_by_toc_id)} :
           /\ segments_by_toc_id' = Store(segments_by_toc_id, by_id)
           /\ raised' = by_id.exc
    /\ UNCHANGED <<manifest, effective_toc, enhanced_toc,
                   pre_toc_unplayed_audio_segments, toc_total_duration,
                   toc_actual_total_duration, call, ret, readers, validation, oauth>>

\* audiobook.enhanced_toc, first read; an enhanced_toc that is cached was
\* built from a cached segments_by_toc_id.
GetEnhancedToc ==
    /\ ~IsSet(enhanced_toc)
    /\ \E by_id \in {ReadSegmentsByTocId(manifest, ValueOf(effective_toc),
                                           segments_by_toc_id)} :
       \E enhanced \in {ReadEnhancedToc(ValueOf(effective_toc), enhanced_toc, by_id)} :
           /\ segments_by_toc_id' = StoreIfRead(ValueOf(effective_toc), enhanced_toc,
                                                segments_by_toc_id, by_id)
           /\ enhanced_toc' = Store(enhanced_toc, enhanced)
           /\ raised' = enhanced.exc
    /\ UNCHANGED <<manifest, effective_toc, pre_toc_unplayed_audio_segments,
                   toc_total_duration, toc_actual_total_duration, call, ret, readers, validation, oauth>>

\* audiobook.pre_toc_unplayed_audio_segments, first read
GetPreTocUnplayedAudioSegments ==
    /\ ~IsSet(pre_toc_unplayed_audio_segments)
    /\ \E r \in {PreTocUnplayedAudioSegments(manifest, ValueOf(effective_toc))} :
           /\ pre_toc_unplayed_audio_segments' =
                  Store(pre_toc_unplayed_audio_segments, r)
           /\ raised' = r.exc
    /\ UNCHANGED <<manifest, effective_toc, segments_by_toc_id, enhanced_toc,
                   toc_total_duration, toc_actual_total_duration, call, ret, readers, validation, oauth>>

\* audiobook.toc_total_duration, first read
GetTocTotalDuration ==
    /\ ~IsSet(toc_total_duration)
    /\ \E by_id \in {ReadSegmentsByTocId(manifest, ValueOf(effective_toc),
                                           segments_by_toc_id)} :
       \E enhanced \in {ReadEnhancedToc(ValueOf(effective_toc), enhanced_toc, by_id)} :
           /\ segments_by_toc_id' = StoreIfRead(ValueOf(effective_toc), enhanced_toc,
                                                segments_by_toc_id, by_id)
           /\ enhanced_toc' = Store(enhanced_toc, enhanced)
           /\ toc_total_duration' =
                  IF enhanced.exc = "none"
                  THEN Cached(TocTotalDuration(enhanced.value))
                  ELSE toc_total_duration
           /\ raised' = enhanced.exc
    /\ UNCHANGED <<manifest, effective_toc, pre_toc_unplayed_audio_segments,
                   toc_actual_total_duration, call, ret, readers, validation, oauth>>

\* audiobook.toc_actual_total_duration, first read
GetTocActualTotalDuration ==
    /\ ~IsSet(toc_actual_total_duration)
    /\ \E by_id \in {ReadSegmentsByTocId(manifest, ValueOf(effective_toc),
                                           segments_by_toc_id)} :
       \E enhanced \in {ReadEnhancedToc(ValueOf(effective_toc), enhanced_toc, by_id)} :
           /\ segments_by_toc_id' = StoreIfRead(ValueOf(effective_toc), enhanced_toc,
                                                segments_by_toc_id, by_id)
           /\ enhanced_toc' = Store(enhanced_toc, enhanced)
           /\ toc_actual_total_duration' =
                  IF enhanced.exc = "none"
                  THEN Cached(TocActualTotalDuration(enhanced.value))
                  ELSE toc_actual_total_duration
           /\ raised' = enhanced.exc
    /\ UNCHANGED <<manifest, effective_toc, pre_toc_unplayed_audio_segments,
                   toc_total_duration, call, ret, readers, validation, oauth>>

\* A later read of a cached property: the cache is returned as it is.
ReadAgain ==
    /\ \E p \in Properties :
           /\ IsSet(CacheOf(p))
           /\ ret' = Cached([prop |-> p, value |-> ValueOf(CacheOf(p))])
    /\ raised' = "none"
    /\ UNCHANGED <<manifest, effective_toc, segments_by_toc_id, enhanced_toc,
                   pre_toc_unplayed_audio_segments, toc_total_duration,
                   toc_actual_total_duration, call, readers, validation, oauth>>

NextLazy ==
    \/ GetSegmentsByTocId
    \/ GetEnhancedToc
    \/ GetPreTocUnplayedAudioSegments
    \/ GetTocTotalDuration
    \/ GetTocActualTotalDuration
    \/ ReadAgain

\* The Audiobook read property by property, in any order.
SpecLazy == Init /\ [][NextLazy]_vars

\* summarize-manifest's command on a fresh Audiobook: print_audio_summary
\* reads toc_total_duration, toc_actual_total_duration, the enhanced ToC and
\* pre_toc_unplayed_audio_segments, in this order; the first exception ends
\* the command.
Summarize ==
    /\ ~IsSet(segments_by_toc_id)
    /\ ~IsSet(pre_toc_unplayed_audio_segments)
    /\ \E by_id \in {ReadSegmentsByTocId(manifest, ValueOf(effective_toc),
                                           segments_by_toc_id)} :
       \E enhanced \in {ReadEnhancedToc(ValueOf(effective_toc), enhanced_toc, by_id)} :
       \E pre_toc \in {PreTocUnplayedAudioSegments(manifest, ValueOf(effective_toc))} :
           /\ segments_by_toc_id' = StoreIfRead(ValueOf(effective_toc), enhanced_toc,
                                                segments_by_toc_id, by_id)
           /\ enhanced_toc' = Store(enhanced_toc, enhanced)
           /\ toc_total_duration' =
                  IF enhanced.exc = "none"
                  THEN Cached(TocTotalDuration(enhanced.value))
                  ELSE toc_total_duration
           /\ toc_actual_total_duration' =
                  IF enhanced.exc = "none"
                  THEN Cached(TocActualTotalDuration(enhanced.value))
                  ELSE toc_actual_total_duration
           /\ pre_toc_unplayed_audio_segments' =
                  IF enhanced.exc = "none"
                  THEN Store(pre_toc_unplayed_audio_segments, pre_toc)
                  ELSE pre_toc_unplayed_audio_segments
           /\ raised' = IF enhanced.exc # "none" THEN enhanced.exc ELSE pre_toc.exc
    /\ UNCHANGED <<manifest, effective_toc, call, ret, readers, validation, oauth>>

Next == Summarize

Spec == Init /\ [][Next]_vars

(***************************************************************************)
(* Claims about a resolved manifest (Spec).                                *)
(***************************************************************************)
Tracks == manifest.reading_order
\* The command went through without exception.
Resolved == IsSet(enhanced_toc) /\ IsSet(pre_toc_unplayed_audio_segments)
\* The entries of the effective ToC, and the enhanced ones, in playback order.
PlainEntries == toc_in_playback_order(ValueOf(effective_toc))
EnhancedEntries == enhanced_toc_in_playback_order(ValueOf(enhanced_toc))
PreToc == ValueOf(pre_toc_unplayed_audio_segments)

RECURSIVE Concat(_)
Concat(lists) == IF lists = <<>> THEN <<>> ELSE Head(lists) \o Concat(Tail(lists))

\* The pre-ToC unplayed segments followed by every entry's own segments.
AllSegments ==
    PreToc \o Concat([i \in DOMAIN EnhancedEntries |-> EnhancedEntries[i].audio_segments])

Durations(segments) == SumSeq([i \in DOMAIN segments |-> segments[i].duration])
ActualDurations(segments) ==
    SumSeq([i \in DOMAIN segments |-> segments[i].actual_duration])
TrackDurations == SumSeq([i \in DOMAIN Tracks |-> Tracks[i].duration])

HasTrack(entry) == \E i \in DOMAIN Tracks : Tracks[i].href = entry.track_href
\* 1-based position of the track an entry references / a segment lies on.
TrackOf(entry) == CHOOSE i \in DOMAIN Tracks : Tracks[i].href = entry.track_href
TrackOfSegment(segment) == CHOOSE i \in DOMAIN Tracks : Tracks[i] = segment.track

AllReferencesResolve == \A i \in DOMAIN PlainEntries : HasTrack(PlainEntries[i])

\* Track references never go back to an earlier track along playback order.
TracksInOrder ==
    /\ AllReferencesResolve
    /\ \A i \in DOMAIN PlainEntries : \A j \in DOMAIN PlainEntries :
          i < j => TrackOf(PlainEntries[i]) <= TrackOf(PlainEntries[j])

\* (track, offset) never goes back, and no offset is past its track's end.
ValidManifest ==
    /\ Tracks # <<>>
    /\ \A i \in DOMAIN Tracks : \A j \in DOMAIN Tracks :
          Tracks[i].href = Tracks[j].href => i = j
    /\ TracksInOrder
    /\ \A i \in DOMAIN PlainEntries :
          /\ 0 <= PlainEntries[i].track_offset
          /\ PlainEntries[i].track_offset <= Tracks[TrackOf(PlainEntries[i])].duration
    /\ \A i \in DOMAIN PlainEntries : \A j \in DOMAIN PlainEntries :
          (i < j /\ TrackOf(PlainEntries[i]) = TrackOf(PlainEntries[j]))
              => PlainEntries[i].track_offset <= PlainEntries[j].track_offset

WellFormed(segment) ==
    /\ 0 <= segment.start
    /\ segment.start <= segment.end
    /\ segment.end <= segment.track.duration
    /\ segment.duration >= 0

\* A list of segments that starts at the first track's offset 0, ends at the
\* last track's end, and in which every segment starts where the one before
\* it ends: on the same track, or at offset 0 of the next track when the one
\* before ends at its track's end.
Tiles(segments) ==
    /\ segments # <<>>
    /\ \A i \in DOMAIN segments :
          /\ segments[i].track \in Range(Tracks)
          /\ WellFormed(segments[i])
    /\ TrackOfSegment(segments[1]) = 1
    /\ segments[1].start = 0
    /\ TrackOfSegment(segments[Len(segments)]) = Len(Tracks)
    /\ segments[Len(segments)].end = Tracks[Len(Tracks)].duration
    /\ \A i \in 1..(Len(segments) - 1) :
          \/ /\ TrackOfSegment(segments[i + 1]) = TrackOfSegment(segments[i])
             /\ segments[i + 1].start = segments[i].end
          \/ /\ TrackOfSegment(segments[i + 1]) = TrackOfSegment(segments[i]) + 1
             /\ segments[i].end = segments[i].track.duration
             /\ segments[i + 1].start = 0

\* C1: for a valid manifest (at least one track, unique track hrefs, every
\* entry on a track of the list at an offset within the track, entries in
\* non-decreasing (track, offset) order, any nesting) the pre-ToC unplayed
\* segments followed by every entry's own segments in playback order tile
\* every track from 0 to its declared duration, without gap or overlap.
C1_PartitionInvariant ==
    (Resolved /\ ValidManifest) => Tiles(AllSegments)

\* A nested ToC over three tracks with leading unplayed audio.
C1_Witness ==
    /\ Resolved /\ ValidManifest
    /\ manifest = NestedExample
    /\ PreToc # <<>>

OwnDurations ==
    SumSeq([i \in DOMAIN PlainEntries |->
              Durations(ValueOf(segments_by_toc_id)[PlainEntries[i].id])])
OwnActualDurations ==
    SumSeq([i \in DOMAIN PlainEntries |->
              ActualDurations(ValueOf(segments_by_toc_id)[PlainEntries[i].id])])

\* C3 as claimed: the whole-book declared total is the sum of the entries'
\* own declared durations plus the pre-ToC unplayed duration, likewise the
\* actual total.
C3_Claimed_TotalsIncludePreToc ==
    Resolved =>
        /\ ValueOf(toc_total_duration) = OwnDurations + Durations(PreToc)
        /\ ValueOf(toc_actual_total_duration) =
               OwnActualDurations + ActualDurations(PreToc)

\* C3, amended: the whole-book declared total is the sum of the entries' own
\* declared durations, the pre-ToC unplayed segments excluded; likewise the
\* actual total.  With one 30 second track and a first entry at #t=5 the 5
\* leading seconds are in the pre-ToC list, in no entry's duration and not
\* in the declared total, which is 25.
C3_TotalsExcludePreToc ==
    Resolved =>
        /\ ValueOf(toc_total_duration) = OwnDurations
        /\ ValueOf(toc_actual_total_duration) = OwnActualDurations
        /\ manifest = LeadingAudioExample =>
              /\ Ranges(PreToc) = <<<<Tracks[1], 0, 5>>>>
              /\ Durations(PreToc) = 5
              /\ ValueOf(toc_total_duration) = 25

\* The leading-audio example, resolved: 5 unplayed seconds, total 25.
C3_Witness ==
    /\ Resolved
    /\ manifest = LeadingAudioExample
    /\ ValueOf(toc_total_duration) = 25

\* C8: for consecutive entries i, i+1 in playback order, when entry i's last
\* segment and entry i+1's first segment are on the same track, the former
\* ends where the latter starts.
C8_Adjacency ==
    Resolved =>
        \A i \in 1..(Len(EnhancedEntries) - 1) :
            LET mine == EnhancedEntries[i].audio_segments
                next == EnhancedEntries[i + 1].audio_segments
            IN  mine[Len(mine)].track = next[1].track
                    => mine[Len(mine)].end = next[1].start

\* Consecutive entries that meet inside a track, the first one spanning two
\* tracks.
C8_Witness ==
    /\ Resolved
    /\ Len(EnhancedEntries) >= 2
    /\ Len(EnhancedEntries[1].audio_segments) = 2
    /\ EnhancedEntries[1].audio_segments[2].track = EnhancedEntries[2].audio_segments[1].track
    /\ EnhancedEntries[2].audio_segments[1].start > 0

NonNegativeOffsets == \A i \in DOMAIN PlainEntries : PlainEntries[i].track_offset >= 0

C10_SynthesizedToc ==
    manifest.toc = <<>> =>
        LET toc == ValueOf(effective_toc)
        IN  /\ Len(toc) = Len(Tracks)
            /\ \A n \in DOMAIN toc :
                  /\ toc[n].track_href = Tracks[n].href
                  /\ toc[n].href = Href(Tracks[n].href, <<0>>)
                  /\ toc[n].track_offset = 0
                  /\ toc[n].children = <<>>
                  /\ toc[n].title = IF Tracks[n].title \in {None, ""}
                                    THEN DefaultTitles[n] ELSE Tracks[n].title
            /\ Resolved =>
                  /\ Len(ValueOf(enhanced_toc)) = Len(Tracks)
                  /\ \A n \in DOMAIN Tracks :
                        /\ Ranges(ValueOf(enhanced_toc)[n].audio_segments)
                               = <<FullTrack(Tracks[n])>>
                        /\ ValueOf(enhanced_toc)[n].duration = Tracks[n].duration
                        /\ ValueOf(enhanced_toc)[n].depth = 0
                        /\ ValueOf(enhanced_toc)[n].sub_entries = <<>>
                  /\ PreToc = <<>>
                  /\ ValueOf(toc_total_duration) = TrackDurations
                  /\ manifest = SynthesizedExample => ValueOf(toc_total_duration) = 50

\* The example of four tracks lasting 10, 20, 15 and 5 seconds, resolved.
C10_Witness ==
    /\ manifest = SynthesizedExample
    /\ Resolved
    /\ Len(ValueOf(enhanced_toc)) = 4
    /\ ValueOf(toc_total_duration) = 50

\* C11 as claimed: the pre-ToC unplayed list is empty if and only if the first
\* entry of the effective ToC resolves to the first track at offset 0.
C11_PreTocEmptyIffFirstEntryAtStart ==
    Resolved =>
        (PreToc = <<>>
            <=> (TrackOf(PlainEntries[1]) = 1 /\ PlainEntries[1].track_offset = 0))

\* Path p comes before path q in the tree: p is a proper prefix of q, or p
\* is smaller at the first position where they differ.
Before(p, q) ==
    \E k \in 1..Len(q) :
        /\ \A m \in 1..(k - 1) : m <= Len(p) /\ p[m] = q[m]
        /\ \/ k = Len(p) + 1
           \/ k <= Len(p) /\ p[k] < q[k]

\* A sequence of nodes is the depth-first pre-order of the tree with the
\* top-level list roots and the child lists given by Kids.
PreOrder(seq, roots, Kids(_)) ==
    /\ \A i \in DOMAIN seq : \A j \in DOMAIN seq : i < j => Before(seq[i].id, seq[j].id)
    /\ \A k \in DOMAIN roots : \E i \in DOMAIN seq : seq[i] = roots[k]
    /\ \A i \in DOMAIN seq : \A k \in DOMAIN Kids(seq[i]) :
          \E j \in DOMAIN seq : j > i /\ seq[j] = Kids(seq[i])[k]
    /\ \A j \in DOMAIN seq :
          \/ \E k \in DOMAIN roots : seq[j] = roots[k]
          \/ \E i \in 1..(j - 1) : \E k \in DOMAIN Kids(seq[i]) : seq[j] = Kids(seq[i])[k]
    /\ \A i \in DOMAIN seq :
          Kids(seq[i]) # <<>> => (i < Len(seq) /\ seq[i + 1] = Kids(seq[i])[1])

ChildrenOf(entry) == entry.children
SubEntriesOf(entry) == entry.sub_entries

EntryTrackMissing ==
    \A i \in DOMAIN call.tracks : call.tracks[i].href # call.entry.track_href

\* C13: resolving an entry whose track reference is not in the track list
\* raises a lookup error that reaches the caller, whatever the next entry is
\* (none included): KeyError, or IndexError when there is no track at all
\* and no next entry; no segment list is returned for the entry.
C13_MissingTrackRaises ==
    (IsSet(ret) /\ EntryTrackMissing) =>
        /\ ValueOf(ret).exc \in {"KeyError", "IndexError"}
        /\ ValueOf(ret).exc = "IndexError" =>
               (call.tracks = <<>> /\ call.next_entry = <<>>)
        /\ "audio_segments" \notin DOMAIN ValueOf(ret)

\* A missing entry track whose next entry starts a present track at offset 0
\* (rule 4): the lookup of the entry's own track raises KeyError.
C13_Witness ==
    /\ IsSet(ret) /\ EntryTrackMissing
    /\ call.next_entry # <<>>
    /\ \E i \in DOMAIN call.tracks : call.tracks[i].href = NextOfCall.track_href
    /\ NextOfCall.track_offset = 0
    /\ ValueOf(ret).exc = "KeyError"

\* C14 as claimed: a manifest with zero tracks is rejected: no effective or
\* enhanced ToC, no segment list and no duration total is ever returned for
\* it, with or without an explicit ToC.
C14_ZeroTracksRejected ==
    Tracks = <<>> =>
        /\ ~IsSet(effective_toc)
        /\ ~IsSet(segments_by_toc_id)
        /\ ~IsSet(enhanced_toc)
        /\ ~IsSet(pre_toc_unplayed_audio_segments)
        /\ ~IsSet(toc_total_duration)
        /\ ~IsSet(toc_actual_total_duration)

\* The manifest with every track's measured duration removed.
Unmeasured(m) ==
    [reading_order |-> [i \in DOMAIN m.reading_order |->
                           [m.reading_order[i] EXCEPT !.actual_duration = 0]],
     toc |-> m.toc]
\* The declared part of a list of segments: track href and declared
\* duration, start, end, declared duration of the segment.
Declared(segments) ==
    [i \in DOMAIN segments |->
        <<segments[i].track.href, segments[i].track.duration,
          segments[i].start, segments[i].end, segments[i].duration>>]
\* The resolution of the unmeasured manifest.
UnmeasuredEntries ==
    enhanced_toc_in_playback_order(
        generate_enhanced_toc(
            EffectiveToc(Unmeasured(manifest)), 0,
            SegmentsByTocId(Unmeasured(manifest),
                            EffectiveToc(Unmeasured(manifest))).value))
UnmeasuredPreToc ==
    PreTocUnplayedAudioSegments(Unmeasured(manifest),
                                EffectiveToc(Unmeasured(manifest))).value

\* C15: the declared timeline of a manifest is the one of the same manifest
\* without measured durations: every entry's and the pre-ToC list's (track,
\* start, end) segments, every declared duration and the declared total are
\* the same, so two manifests that differ only in measured durations agree
\* on all of them.
C15_MeasuredDurationsDoNotInfluence ==
    Resolved =>
        /\ Len(EnhancedEntries) = Len(UnmeasuredEntries)
        /\ \A i \in DOMAIN EnhancedEntries :
              /\ EnhancedEntries[i].id = UnmeasuredEntries[i].id
              /\ Declared(EnhancedEntries[i].audio_segments)
                     = Declared(UnmeasuredEntries[i].audio_segments)
              /\ EnhancedEntries[i].duration = UnmeasuredEntries[i].duration
        /\ Declared(PreToc) = Declared(UnmeasuredPreToc)
        /\ ValueOf(toc_total_duration)
               = SumSeq([i \in DOMAIN UnmeasuredEntries |-> UnmeasuredEntries[i].duration])

\* A resolved manifest with measured tracks whose actual total differs from
\* the declared total.
C15_Witness ==
    /\ Resolved
    /\ \E i \in DOMAIN Tracks : Tracks[i].actual_duration > Tracks[i].duration
    /\ ValueOf(toc_actual_total_duration) # ValueOf(toc_total_duration)
    /\ PreToc # <<>>

\* C16 as claimed: every segment on a track without measured duration
\* carries end_actual = 0, whether it ends at the track's end or at a next
\* entry's offset.
C16_UnmeasuredTrackHasZeroEndActual ==
    Resolved =>
        \A i \in DOMAIN AllSegments :
            AllSegments[i].track.actual_duration = 0 => AllSegments[i].end_actual = 0

(***************************************************************************)
(* SpecReaders: several threads read the cached properties of one          *)
(* Audiobook.  A cached_property looks its cache up, calls its function on *)
(* a miss and stores what the function returned; nothing locks the cache,  *)
(* so a thread can be interrupted between the three.  A function that      *)
(* reads another cached property does so through the same protocol, which  *)
(* the frames of a reader record, the innermost read last.                 *)
(***************************************************************************)
\* The caches after slot v was written for property p.
SetCache(p, v) ==
    /\ segments_by_toc_id' = IF p = "segments_by_toc_id" THEN v ELSE segments_by_toc_id
    /\ enhanced_toc' = IF p = "enhanced_toc" THEN v ELSE enhanced_toc
    /\ pre_toc_unplayed_audio_segments' =
           IF p = "pre_toc_unplayed_audio_segments" THEN v
           ELSE pre_toc_unplayed_audio_segments
    /\ toc_total_duration' = IF p = "toc_total_duration" THEN v ELSE toc_total_duration
    /\ toc_actual_total_duration' =
           IF p = "toc_actual_total_duration" THEN v ELSE toc_actual_total_duration

\* The cached property that the function of property p reads, if any:
\* generate_enhanced_toc reads segments_by_toc_id for each entry (the reads
\* after the first find the cache filled), the totals read enhanced_toc.
DependencyOf(p, toc) ==
    CASE p = "enhanced_toc" /\ toc # <<>> -> <<"segments_by_toc_id">>
      [] p \in {"toc_total_duration", "toc_actual_total_duration"} -> <<"enhanced_toc">>
      [] OTHER -> <<>>

\* Mutant of InProgress: the dict is put in the cache empty and filled
\* afterwards.
InProgress_EmptyDict(slot) == Cached(<<>>)
\* The segments_by_toc_id cache while a thread computes the dict: the dict
\* is built by one comprehension and stored when the function has returned.
InProgress(slot) == slot

\* generate_enhanced_toc over the dict a read of segments_by_toc_id gave.
EnhancedFrom(toc, by_id) ==
    IF toc = <<>> THEN [exc |-> "none", value |-> <<>>]
    ELSE IF \E i \in DOMAIN toc_in_playback_order(toc) :
                toc_in_playback_order(toc)[i].id \notin DOMAIN ValueOf(by_id)
         THEN Raise("KeyError")
    ELSE [exc |-> "none", value |-> generate_enhanced_toc(toc, 0, ValueOf(by_id))]

\* What the function of property p returns, dep being the slot with the
\* value its read of another cached property returned.
FunctionOf(p, m, toc, dep) ==
    CASE p = "segments_by_toc_id" -> SegmentsByTocId(m, toc)
      [] p = "enhanced_toc" -> EnhancedFrom(toc, dep)
      [] p = "pre_toc_unplayed_audio_segments" -> PreTocUnplayedAudioSegments(m, toc)
      [] p = "toc_total_duration" ->
            [exc |-> "none", value |-> TocTotalDuration(ValueOf(dep))]
      [] OTHER -> [exc |-> "none", value |-> TocActualTotalDuration(ValueOf(dep))]

Frame(p, phase) == [prop |-> p, phase |-> phase]
IdleReader == [frames |-> <<>>, held |-> Unset, prop |-> "none", outcome |-> Unset]
TopOf(r) == readers[r].frames[Len(readers[r].frames)]
Running(r) == readers[r].frames # <<>>

\* The reader after its innermost read returned value: the outermost read
\* gives the reader its outcome, an inner one hands the value to the
\* function that asked for it.
Returned1(reader, value) ==
    IF Len(reader.frames) = 1
    THEN [reader EXCEPT !.frames = <<>>, !.held = Unset,
                        !.outcome = Cached([exc |-> "none", value |-> value])]
    ELSE [reader EXCEPT !.frames = SubSeq(@, 1, Len(@) - 1), !.held = Cached(value)]

\* The reader after an exception left the function of its innermost read:
\* it passes through every function that waits for it.
Raised1(reader, exc) ==
    [reader EXCEPT !.frames = <<>>, !.held = Unset, !.outcome = Cached(Raise(exc))]

\* The manifests the readers share: the examples, and the manifests without
\* track, with one ToC entry or none, whose reads fail.
ReaderManifests ==
    ExampleManifests \cup ExplicitManifests(0, 1) \cup SynthesizedManifests(0)

InitReaders ==
    /\ manifest \in ReaderManifests
    /\ effective_toc = Cached(EffectiveToc(manifest))
    /\ segments_by_toc_id = Unset
    /\ enhanced_toc = Unset
    /\ pre_toc_unplayed_audio_segments = Unset
    /\ toc_total_duration = Unset
    /\ toc_actual_total_duration = Unset
    /\ raised = "none"
    /\ call = NoCall
    /\ ret = Unset
    /\ readers = [r \in 1..NumReaders |-> IdleReader]
    /\ validation = NoValidation
    /\ oauth = NoToken

\* A thread starts reading one of the properties.
Begin(r) ==
    /\ readers[r].prop = "none"
    /\ \E p \in Properties :
          readers' = [readers EXCEPT ![r] = [IdleReader EXCEPT
                         !.frames = <<Frame(p, "lookup")>>, !.prop = p]]
    /\ UNCHANGED <<bookVars, call, ret, validation, oauth>>

\* cache.get(attrname) finds the value.
Hit(r) ==
    /\ Running(r)
    /\ TopOf(r).phase = "lookup"
    /\ IsSet(CacheOf(TopOf(r).prop))
    /\ readers' = [readers EXCEPT ![r] = Returned1(@, ValueOf(CacheOf(TopOf(r).prop)))]
    /\ UNCHANGED <<bookVars, call, ret, validation, oauth>>

\* cache.get(attrname) finds nothing: the function is called, and a function
\* that reads another cached property starts by reading it.
Miss(r) ==
    /\ Running(r)
    /\ TopOf(r).phase = "lookup"
    /\ ~IsSet(CacheOf(TopOf(r).prop))
    /\ \E dep \in {DependencyOf(TopOf(r).prop, ValueOf(effective_toc))} :
          readers' = [readers EXCEPT ![r].frames =
                         SubSeq(@, 1, Len(@) - 1) \o <<Frame(TopOf(r).prop, "call")>>
                         \o [i \in DOMAIN dep |-> Frame(dep[i], "lookup")]]
    /\ segments_by_toc_id' =
           IF TopOf(r).prop = "segments_by_toc_id" THEN InProgress(segments_by_toc_id)
           ELSE segments_by_toc_id
    /\ UNCHANGED <<manifest, effective_toc, enhanced_toc,
                   pre_toc_unplayed_audio_segments, toc_total_duration,
                   toc_actual_total_duration, raised, call, ret, validation, oauth>>

\* The function returns and its value is stored, or it raises and nothing
\* is stored.
Call(r) ==
    /\ Running(r)
    /\ TopOf(r).phase = "call"
    /\ \E result \in {FunctionOf(TopOf(r).prop, manifest, ValueOf(effective_toc),
                                 readers[r].held)} :
          IF result.exc = "none"
          THEN /\ SetCache(TopOf(r).prop, Cached(result.value))
               /\ readers' = [readers EXCEPT ![r] = Returned1(@, result.value)]
          ELSE /\ UNCHANGED <<segments_by_toc_id, enhanced_toc,
                              pre_toc_unplayed_audio_segments, toc_total_duration,
                              toc_actual_total_duration>>
               /\ readers' = [readers EXCEPT ![r] = Raised1(@, result.exc)]
    /\ UNCHANGED <<manifest, effective_toc, raised, call, ret, validation, oauth>>

NextReaders ==
    \E r \in 1..NumReaders : Begin(r) \/ Hit(r) \/ Miss(r) \/ Call(r)

SpecReaders == InitReaders /\ [][NextReaders]_vars

(***************************************************************************)
(* Claims about concurrent readers (SpecReaders).                          *)
(***************************************************************************)
\* What one thread alone gets from property p of a freshly built Audiobook.
EnhancedAlone(m, toc) == ReadEnhancedToc(toc, Unset, SegmentsByTocId(m, toc))
TotalAlone(p, enhanced) ==
    IF enhanced.exc # "none" THEN Raise(enhanced.exc)
    ELSE FunctionOf(p, <<>>, <<>>, Cached(enhanced.value))
Sequential(p, m, toc) ==
    CASE p = "segments_by_toc_id" -> SegmentsByTocId(m, toc)
      [] p = "enhanced_toc" -> EnhancedAlone(m, toc)
      [] p = "pre_toc_unplayed_audio_segments" -> PreTocUnplayedAudioSegments(m, toc)
      [] OTHER -> TotalAlone(p, EnhancedAlone(m, toc))

\* C17: however the reads of several threads interleave, the first reads
\* that fill the caches included, every finished read has the outcome it
\* has when executed alone (so it fails only where it fails alone), every
\* filled cache holds the value computed alone, and the manifest and its
\* effective ToC are what they were at construction.
C17_ConcurrentReadsAgreeWithSequential ==
    /\ \A r \in DOMAIN readers :
          IsSet(readers[r].outcome) =>
              ValueOf(readers[r].outcome)
                  = Sequential(readers[r].prop, manifest, ValueOf(effective_toc))
    /\ \A p \in Properties :
          IsSet(CacheOf(p)) =>
              Sequential(p, manifest, ValueOf(effective_toc))
                  = [exc |-> "none", value |-> ValueOf(CacheOf(p))]
    /\ effective_toc = Cached(EffectiveToc(manifest))

\* Two threads missed the segments_by_toc_id cache at the same time: one has
\* stored its dict and finished its read of the enhanced ToC, the other is
\* still inside the function and will store the dict again.
C17_Witness ==
    \E r1, r2 \in DOMAIN readers :
        /\ r1 # r2
        /\ readers[r1].prop = "enhanced_toc"
        /\ IsSet(readers[r1].outcome)
        /\ ValueOf(readers[r1].outcome).exc = "none"
        /\ ValueOf(readers[r1].outcome).value # <<>>
        /\ Running(r2)
        /\ TopOf(r2) = Frame("segments_by_toc_id", "call")
        /\ IsSet(segments_by_toc_id)

(***************************************************************************)
(* Claims about repeated reads (SpecLazy).                                 *)
(***************************************************************************)
\* What a second Audiobook built from the same manifest computes for p.
SecondAudiobook(p) == Sequential(p, manifest, EffectiveToc(manifest))

DurationMismatch_NoTolerance(track) ==
    track.actual_duration # 0 /\ track.duration # track.actual_duration
\* track.actual_duration and abs(track.duration - track.actual_duration) > 1
DurationMismatch(track) ==
    /\ track.actual_duration # 0
    /\ Max(track.duration - track.actual_duration,
           track.actual_duration - track.duration) > 1

\* An entry of `errors`: what it reports, and the position of the track or
\* ToC entry it is about (0 for the manifest as a whole).
Diagnostic(kind, subject) == [kind |-> kind, subject |-> subject]

\* sum(sum(seg.duration for seg in toc.audio_segments) for toc in ...)
SegmentsTotalOf(all) == SumSeq([i \in DOMAIN all |-> Durations(all[i].audio_segments)])
SegmentsTotalDuration(enhanced) ==
    SegmentsTotalOf(enhanced_toc_in_playback_order(enhanced))

\* The totals comparison: the ToC total against the tracks' total and the
\* segments' total.
TotalsDiagnostics(toc_total, track_total, segments_total) ==
    IF toc_total # track_total \/ toc_total # segments_total
    THEN <<Diagnostic("totals", 0)>> ELSE <<>>

\* The loop over the reading order that looks for a repeated href.
TrackHrefDiagnostics(tracks) ==
    Concat([i \in DOMAIN tracks |->
               IF \E j \in 1..(i - 1) : tracks[j].href = tracks[i].href
               THEN <<Diagnostic("duplicate_track_href", i)>> ELSE <<>>])

\* The two loops over the top-level ToC entries: repeated href, href whose
\* part before "#" is no track's href; then entries with children.
TocHrefDiagnostics(toc, tracks) ==
    Concat([i \in DOMAIN toc |->
               (IF \E j \in 1..(i - 1) : toc[j].href = toc[i].href
                THEN <<Diagnostic("duplicate_toc_href", i)>> ELSE <<>>)
               \o (IF \A j \in DOMAIN tracks : tracks[j].href # toc[i].href.track
                   THEN <<Diagnostic("toc_href_not_found", i)>> ELSE <<>>)])
    \o Concat([i \in DOMAIN toc |->
                  IF toc[i].children # <<>>
                  THEN <<Diagnostic("toc_entry_has_children", i)>> ELSE <<>>])

\* The track lists of n tracks declared 3 seconds long and, each on its own,
\* not measured (0) or measured 1 to 5 seconds long.
MeasuredTrackLists(n) ==
    {[i \in 1..n |-> AudioTrack(None, TrackHrefNames[i], 3, a[i])] :
        a \in [1..n -> 0..5]}

\* The manifests validated: fewer than MaxCallTracks tracks, and no ToC or a
\* ToC of one or two nodes on the first two track names.
ValidatedManifests ==
    UNION {[reading_order : MeasuredTrackLists(n),
            toc : UNION {Forests(k, <<>>, 1, TocHrefs(2, 1)) : k \in 0..2}] :
           n \in 0..(MaxCallTracks - 1)}

InitValidate ==
    /\ manifest \in ValidatedManifests
    /\ effective_toc = Cached(EffectiveToc(manifest))
    /\ segments_by_toc_id = Unset
    /\ enhanced_toc = Unset
    /\ pre_toc_unplayed_audio_segments = Unset
    /\ toc_total_duration = Unset
    /\ toc_actual_total_duration = Unset
    /\ raised = "none"
    /\ call = NoCall
    /\ ret = Unset
    /\ readers = NoReaders
    /\ validation = [step |-> "tracks", checked |-> 0, errors |-> <<>>]
    /\ oauth = NoToken

\* One turn of `for track in manifest.reading_order`.
CheckTrack ==
    /\ validation.step = "tracks"
    /\ validation.checked < Len(manifest.reading_order)
    /\ \E track \in {manifest.reading_order[validation.checked + 1]} :
          validation' = [validation EXCEPT
              !.checked = @ + 1,
              !.errors = IF DurationMismatch(track)
                         THEN Append(@, Diagnostic("track_duration",
                                                   validation.checked + 1))
                         ELSE @]
    /\ UNCHANGED <<bookVars, call, ret, readers, oauth>>

\* After the loop: toc_total_duration is read, the tracks and the segments
\* of the enhanced ToC are summed and the totals compared.
CheckTotals ==
    /\ validation.step = "tracks"
    /\ validation.checked = Len(manifest.reading_order)
    /\ \E by_id \in {ReadSegmentsByTocId(manifest, ValueOf(effective_toc),
                                           segments_by_toc_id)} :
       \E enhanced \in {ReadEnhancedToc(ValueOf(effective_toc), enhanced_toc, by_id)} :
           /\ segments_by_toc_id' = StoreIfRead(ValueOf(effective_toc), enhanced_toc,
                                                segments_by_toc_id, by_id)
           /\ enhanced_toc' = Store(enhanced_toc, enhanced)
           /\ toc_total_duration' =
                  IF enhanced.exc = "none"
                  THEN Cached(TocTotalDuration(enhanced.value))
                  ELSE toc_total_duration
           /\ raised' = enhanced.exc
           /\ validation' =
                  IF enhanced.exc # "none"
                  THEN [validation EXCEPT !.step = "crashed"]
                  ELSE [validation EXCEPT
                           !.step = "pre_toc",
                           !.errors = @ \o TotalsDiagnostics(
                               TocTotalDuration(enhanced.value),
                               SumSeq([i \in DOMAIN manifest.reading_order |->
                                          manifest.reading_order[i].duration]),
                               SegmentsTotalDuration(enhanced.value))]
    /\ UNCHANGED <<manifest, effective_toc, pre_toc_unplayed_audio_segments,
                   toc_actual_total_duration, call, ret, readers, oauth>>

\* if segments := audiobook.pre_toc_unplayed_audio_segments
CheckPreToc ==
    /\ validation.step = "pre_toc"
    /\ \E r \in {PreTocUnplayedAudioSegments(manifest, ValueOf(effective_toc))} :
           /\ pre_toc_unplayed_audio_segments' =
                  Store(pre_toc_unplayed_audio_segments, r)
           /\ raised' = r.exc
           /\ validation' =
                  IF r.exc # "none"
                  THEN [validation EXCEPT !.step = "crashed"]
                  ELSE [validation EXCEPT
                           !.step = "hrefs",
                           !.errors = IF r.value # <<>>
                                      THEN Append(@, Diagnostic("pre_toc", 0))
                                      ELSE @]
    /\ UNCHANGED <<manifest, effective_toc, segments_by_toc_id, enhanced_toc,
                   toc_total_duration, toc_actual_total_duration, call, ret, readers, oauth>>

\* The href checks on the reading order and on manifest.toc.
CheckHrefs ==
    /\ validation.step = "hrefs"
    /\ validation' = [validation EXCEPT
           !.step = "done",
           !.errors = @ \o TrackHrefDiagnostics(manifest.reading_order)
                        \o TocHrefDiagnostics(manifest.toc, manifest.reading_order)]
    /\ UNCHANGED <<bookVars, call, ret, readers, oauth>>

NextValidate == CheckTrack \/ CheckTotals \/ CheckPreToc \/ CheckHrefs

SpecValidate == InitValidate /\ [][NextValidate]_vars

(***************************************************************************)
(* Claims about the validation command (SpecValidate).                     *)
(***************************************************************************)
HasTrackDiagnostic(i) ==
    \E k \in DOMAIN validation.errors :
        validation.errors[k] = [kind |-> "track_duration", subject |-> i]

\* C19: among the tracks checked so far, a track has a duration diagnostic
\* exactly if it was measured and its declared and measured durations differ
\* by more than one second (an unmeasured track has none); whatever was
\* recorded, every track is checked before the totals are read; the total
\* and the pre-ToC segments then produced are those the Audiobook gives
\* without the check, and the command ends early only on an exception that
\* the resolution raises without the check too.
C19_MismatchDiagnosticsAreNonFatal ==
    /\ \A i \in 1..validation.checked :
          HasTrackDiagnostic(i) <=>
              /\ manifest.reading_order[i].actual_duration # 0
              /\ \/ manifest.reading_order[i].duration
                        - manifest.reading_order[i].actual_duration > 1
                 \/ manifest.reading_order[i].actual_duration
                        - manifest.reading_order[i].duration > 1
    /\ validation.step \notin {"none", "tracks"} =>
          validation.checked = Len(manifest.reading_order)
    /\ validation.step \in {"pre_toc", "hrefs", "done"} =>
          /\ IsSet(toc_total_duration)
          /\ SecondAudiobook("toc_total_duration")
                 = [exc |-> "none", value |-> ValueOf(toc_total_duration)]
    /\ validation.step \in {"hrefs", "done"} =>
          /\ IsSet(pre_toc_unplayed_audio_segments)
          /\ SecondAudiobook("pre_toc_unplayed_audio_segments")
                 = [exc |-> "none", value |-> ValueOf(pre_toc_unplayed_audio_segments)]
    /\ validation.step = "crashed" =>
          /\ raised # "none"
          /\ raised \in {SecondAudiobook("toc_total_duration").exc,
                         SecondAudiobook("pre_toc_unplayed_audio_segments").exc}

\* The command completed on a manifest whose first track is two seconds off
\* (diagnostic) and whose second track is one second off (none), with a
\* total and non-empty pre-ToC segments produced after the diagnostic.
C19_Witness ==
    /\ validation.step = "done"
    /\ Len(manifest.reading_order) = 2
    /\ manifest.reading_order[1].actual_duration = 5
    /\ manifest.reading_order[2].actual_duration = 4
    /\ HasTrackDiagnostic(1)
    /\ ~HasTrackDiagnostic(2)
    /\ ValueOf(toc_total_duration) > 0
    /\ ValueOf(pre_toc_unplayed_audio_segments) # <<>>

(***************************************************************************)
(* SpecToken: utils.http.auth_token.OAuthToken.  A text is the sequence of *)
(* its characters, time is in whole seconds since the module was imported. *)
(***************************************************************************)
Whitespace == {" "}
Characters == Whitespace \cup {"a"}

\* str.strip(): leading and trailing whitespace removed.
RECURSIVE StripLeft(_)
StripLeft(text) ==
    IF text # <<>> /\ Head(text) \in Whitespace THEN StripLeft(Tail(text)) ELSE text
RECURSIVE StripRight(_)
StripRight(text) ==
    IF text # <<>> /\ text[Len(text)] \in Whitespace
    THEN StripRight(SubSeq(text, 1, Len(text) - 1)) ELSE text
Strip(text) == StripRight(StripLeft(text))

\* _creation_datetime: the class attribute's default, utc_now() evaluated
\* once, when the class body runs.
CreationDatetime == 0

\* expiration_datetime: _creation_datetime + timedelta(seconds=expires_in)
ExpirationDatetime(expires_in) == CreationDatetime + expires_in

\* is_expired: utc_now() > self.expiration_datetime
IsExpired(now, expiration_datetime) == now > expiration_datetime

\* is_valid: self.access_token.strip() == "" and not self.is_expired
IsValid(access_token, now, expiration_datetime) ==
    Strip(access_token) = <<>> /\ ~IsExpired(now, expiration_datetime)

AccessTokens == UNION {[1..n -> Characters] : n \in 0..MaxTokenLen}

\* A token parsed at some time after the import; nothing is read yet.
InitToken ==
    /\ manifest = NoManifest
    /\ effective_toc = Unset
    /\ segments_by_toc_id = Unset
    /\ enhanced_toc = Unset
    /\ pre_toc_unplayed_audio_segments = Unset
    /\ toc_total_duration = Unset
    /\ toc_actual_total_duration = Unset
    /\ raised = "none"
    /\ call = NoCall
    /\ ret = Unset
    /\ readers = NoReaders
    /\ validation = NoValidation
    /\ oauth \in [access_token : AccessTokens,
                  expires_in : (-1)..MaxExpiresIn,
                  now : 0..1,
                  expiration_datetime : {Unset},
                  is_expired : {Unset},
                  is_valid : {Unset}]

\* The clock advances.
Tick ==
    /\ oauth.now < MaxClock
    /\ oauth' = [oauth EXCEPT !.now = @ + 1]
    /\ UNCHANGED <<bookVars, call, ret, readers, validation>>

\* token.is_expired; reading expiration_datetime fills its cache.  A read
\* is kept with the time it was made at.
ReadIsExpired ==
    /\ oauth' = [oauth EXCEPT
           !.expiration_datetime = Cached(ExpirationDatetime(oauth.expires_in)),
           !.is_expired = Cached([at |-> oauth.now,
                                  value |-> IsExpired(oauth.now,
                                      ExpirationDatetime(oauth.expires_in))])]
    /\ UNCHANGED <<bookVars, call, ret, readers, validation>>

\* token.is_valid; `and` reads is_expired, and so expiration_datetime, only
\* when its left operand is true.
ReadIsValid ==
    /\ oauth' = [oauth EXCEPT
           !.expiration_datetime =
               IF Strip(oauth.access_token) = <<>>
               THEN Cached(ExpirationDatetime(oauth.expires_in)) ELSE @,
           !.is_valid = Cached([at |-> oauth.now,
                                value |-> IsValid(oauth.access_token, oauth.now,
                                    ExpirationDatetime(oauth.expires_in))])]
    /\ UNCHANGED <<bookVars, call, ret, readers, validation>>

NextToken == Tick \/ ReadIsExpired \/ ReadIsValid

SpecToken == InitToken /\ [][NextToken]_vars

(***************************************************************************)
(* Claims about OAuthToken (SpecToken).                                    *)
(***************************************************************************)
\* The last read of is_valid, and whether the token had expired then.
LastIsValid == ValueOf(oauth.is_valid)
ExpiredAt(time) == time > CreationDatetime + oauth.expires_in
Blank(text) == \A i \in DOMAIN text : text[i] \in Whitespace

\* C20: is_valid is true exactly when, at the time it is read, the token has
\* not expired and its access_token is neither empty nor all whitespace.
C20_ValidIffUnexpiredAndNonBlank ==
    (oauth # NoToken /\ IsSet(oauth.is_valid)) =>
        (LastIsValid.value <=> (~ExpiredAt(LastIsValid.at) /\ ~Blank(oauth.access_token)))

(***************************************************************************)
(* SpecWindow: one call of utils.iteration.sliding_window.  The items of   *)
(* the iterable are 1, 2, ..., so a window shows where it was taken.       *)
(***************************************************************************)
WindowCalls ==
    [iterable : {[i \in 1..n |-> i] : n \in 0..MaxItems},
     size : 1..MaxWindow,
     nulls : 0..(MaxWindow + 1)]

InitWindow ==
    /\ call \in WindowCalls
    /\ ret = Unset
    /\ manifest = NoManifest
    /\ effective_toc = Unset
    /\ segments_by_toc_id = Unset
    /\ enhanced_toc = Unset
    /\ pre_toc_unplayed_audio_segments = Unset
    /\ toc_total_duration = Unset
    /\ toc_actual_total_duration = Unset
    /\ raised = "none"
    /\ readers = NoReaders
    /\ validation = NoValidation
    /\ oauth = NoToken

\* list(sliding_window(iterable, size, nulls=nulls))
Slide ==
    /\ ret = Unset
    /\ ret' = Cached(sliding_window(call.iterable, call.size, call.nulls))
    /\ UNCHANGED <<call, readers, validation, oauth, bookVars>>

NextWindow == Slide

SpecWindow == InitWindow /\ [][NextWindow]_vars

(***************************************************************************)
(* Claims about sliding_window (SpecWindow).                               *)
(***************************************************************************)
Windows == ValueOf(ret)
\* The items followed by the Nones shifted in, each as the model writes it.
PaddedItems ==
    [i \in 1..(Len(call.iterable) + Min(call.size, call.nulls)) |->
        IF i <= Len(call.iterable) THEN <<call.iterable[i]>> ELSE <<>>]

\* C21: the tuples yielded all have `size` elements; they are the windows of
\* `size` consecutive items, in input order, followed by min(size, nulls)
\* windows that shift None in at the end.
C21_WindowsHaveSizeElements ==
    IsSet(ret) =>
        /\ \A i \in DOMAIN Windows : Len(Windows[i]) = call.size
        /\ Len(Windows) = Max(Len(call.iterable) - call.size + 1, 0)
                              + Min(call.size, call.nulls)
        /\ \A i \in DOMAIN Windows :
              Len(Windows[i]) = call.size =>
                  Windows[i] = SubSeq(PaddedItems, Len(PaddedItems) - Len(Windows) + i
                                                       - call.size + 1,
                                      Len(PaddedItems) - Len(Windows) + i)

(***************************************************************************)
(* SpecPosition: one subtraction of two TrackPositions of the terminal     *)
(* player (cli.palace_terminal).  A position is a track of the player's    *)
(* track list and a timestamp in milliseconds on it.                       *)
(***************************************************************************)
\* Track(href, title, duration_ms, index); two tracks are equal when their
\* hrefs are (Track.__eq__).
Track(href, duration_ms, index) ==
    [href |-> href, duration_ms |-> duration_ms, index |-> index]
TrackEq(t, u) == t.href = u.href

\* Tracks(manifest).tracks: duration_ms = duration * 1000, index from 0.
PlayerTracks(reading_order) ==
    [i \in DOMAIN reading_order |->
        Track(reading_order[i].href, reading_order[i].duration * 1000, i - 1)]

TrackPosition(track, timestamp) == [track |-> track, timestamp |-> timestamp]

\* Tracks.previous_track(track): None (the empty sequence) before the first.
previous_track(tracks, track) ==
    IF track.index - 1 < 0 THEN <<>> ELSE <<tracks[track.index]>>

\* The while loop of __sub__ and what follows it.
RECURSIVE WalkBack(_, _, _, _)
WalkBack(tracks, prev_track, other, diff) ==
    IF prev_track # <<>> /\ ~TrackEq(prev_track[1], other.track)
    THEN WalkBack(tracks, previous_track(tracks, prev_track[1]), other,
                  diff + prev_track[1].duration_ms)
    ELSE IF prev_track = <<>> THEN Raise("ValueError")
    ELSE [exc |-> "none", value |-> diff + other.track.duration_ms - other.timestamp]

\* TrackPosition.__sub__(self, other)
TrackPositionSub(tracks, self, other) ==
    IF TrackEq(self.track, other.track)
    THEN [exc |-> "none", value |-> self.timestamp - other.timestamp]
    ELSE WalkBack(tracks, previous_track(tracks, self.track), other, self.timestamp)

\* Timestamps: the start of a track, half a second and one second into it.
Timestamps == {0, 500, 1000}

\* The track lists of n tracks of 1..MaxCallSeconds seconds, the positions
\* on a track list, and the subtractions of two of them.
PlayerTrackLists(n) ==
    {PlayerTracks([i \in 1..n |-> AudioTrack(None, TrackHrefNames[i], d[i], 0)]) :
        d \in [1..n -> 1..MaxCallSeconds]}
PositionsOn(tracks) ==
    {TrackPosition(tracks[i], t) : i \in DOMAIN tracks, t \in Timestamps}
PositionCalls ==
    UNION {[tracks : {tracks}, a : PositionsOn(tracks), b : PositionsOn(tracks)] :
           tracks \in UNION {PlayerTrackLists(n) : n \in 1..MaxCallTracks}}

InitPosition ==
    /\ call \in PositionCalls
    /\ ret = Unset
    /\ manifest = NoManifest
    /\ effective_toc = Unset
    /\ segments_by_toc_id = Unset
    /\ enhanced_toc = Unset
    /\ pre_toc_unplayed_audio_segments = Unset
    /\ toc_total_duration = Unset
    /\ toc_actual_total_duration = Unset
    /\ raised = "none"
    /\ readers = NoReaders
    /\ validation = NoValidation
    /\ oauth = NoToken

\* a - b
Subtract ==
    /\ ret = Unset
    /\ ret' = Cached(TrackPositionSub(call.tracks, call.a, call.b))
    /\ UNCHANGED <<call, readers, validation, oauth, bookVars>>

NextPosition == Subtract

SpecPosition == InitPosition /\ [][NextPosition]_vars

(***************************************************************************)
(* Claims about TrackPosition (SpecPosition).                              *)
(***************************************************************************)
\* Milliseconds from the start of the book to a position.
Elapsed(position) ==
    SumSeq([i \in 1..position.track.index |-> call.tracks[i].duration_ms])
    + position.timestamp

\* C22: a - b never raises, whichever of the two positions comes first, and
\* is the distance between them: the timestamp difference on one track, else
\* the time left on b's track plus the tracks in between plus a's timestamp.
C22_SubtractionNeverRaises ==
    IsSet(ret) =>
        /\ ValueOf(ret).exc = "none"
        /\ ValueOf(ret).value = Elapsed(call.a) - Elapsed(call.b)

(***************************************************************************)
(* Claims about the enhanced tree (Spec).                                  *)
(***************************************************************************)
\* The positions, in playback order, of the nodes that come after node i in
\* the tree: its descendants, and whatever follows its subtree.
LaterInBook(i) ==
    {j \in DOMAIN PlainEntries : Before(PlainEntries[i].id, PlainEntries[j].id)}
\* The first of them in the tree, as next_entry is passed: none for the
\* final node of the book.
FirstOf(later) ==
    IF later = {} THEN <<>>
    ELSE <<PlainEntries[CHOOSE j \in later :
                           \A k \in later \ {j} :
                               Before(PlainEntries[j].id, PlainEntries[k].id)]>>
SuccessorInBook(i) == FirstOf(LaterInBook(i))

\* C23: every node's segments are those of audio_segments_for_toc_entry with
\* the node's successor in the book-wide pre-order as next entry: the first
\* child of a node with children, else the first node after the node's
\* subtree whatever its depth; only the final node of the book has none.
C23_SuccessorIsNextInPreOrder ==
    Resolved =>
        \A i \in DOMAIN EnhancedEntries :
            /\ SegmentsOf(audio_segments_for_toc_entry(
                   PlainEntries[i], SuccessorInBook(i), Tracks))
                   = [exc |-> "none", value |-> EnhancedEntries[i].audio_segments]
            /\ PlainEntries[i].children # <<>> =>
                   SuccessorInBook(i) = <<PlainEntries[i].children[1]>>
            /\ SuccessorInBook(i) = <<>> <=> i = Len(PlainEntries)

\* The last node of a subtree is followed by a node higher up in the tree
\* that starts on the same track, before the track's end: the node's last
\* segment ends there and not at the end of the track.
C23_Witness ==
    /\ Resolved
    /\ \E i \in 1..(Len(EnhancedEntries) - 1) :
          /\ Len(PlainEntries[i].id) > Len(PlainEntries[i + 1].id)
          /\ PlainEntries[i + 1].track_href = PlainEntries[i].track_href
          /\ PlainEntries[i + 1].track_offset > PlainEntries[i].track_offset
          /\ PlainEntries[i + 1].track_offset < Tracks[TrackOf(PlainEntries[i])].duration
          /\ Len(EnhancedEntries[i].audio_segments) = 1
          /\ EnhancedEntries[i].audio_segments[1].end = PlainEntries[i + 1].track_offset

\* C24: every enhanced node's declared and actual durations are the sums
\* over its own segment list, which is the list the memo holds for the node
\* and leaves its descendants' segments out; top-level nodes have depth 0
\* and a child its parent's depth plus one; a node's total_duration is its
\* own duration plus its children's total_duration, that is the sum of the
\* own durations over the pre-order traversal of its subtree.
C24_OwnDurationsDepthAndSubtreeTotals ==
    Resolved =>
        /\ \A i \in DOMAIN EnhancedEntries :
              /\ EnhancedEntries[i].duration = Durations(EnhancedEntries[i].audio_segments)
              /\ EnhancedEntries[i].actual_duration
                     = ActualDurations(EnhancedEntries[i].audio_segments)
              /\ EnhancedEntries[i].audio_segments
                     = ValueOf(segments_by_toc_id)[EnhancedEntries[i].id]
              /\ \A k \in DOMAIN EnhancedEntries[i].sub_entries :
                     EnhancedEntries[i].sub_entries[k].depth = EnhancedEntries[i].depth + 1
              /\ total_duration(EnhancedEntries[i])
                     = EnhancedEntries[i].duration
                       + SumSeq([k \in DOMAIN EnhancedEntries[i].sub_entries |->
                                    total_duration(EnhancedEntries[i].sub_entries[k])])
              /\ total_duration(EnhancedEntries[i])
                     = SumSeq([k \in DOMAIN entry_enhanced_toc_in_playback_order(
                                                EnhancedEntries[i]) |->
                                  entry_enhanced_toc_in_playback_order(
                                      EnhancedEntries[i])[k].duration])
        /\ \A k \in DOMAIN ValueOf(enhanced_toc) : ValueOf(enhanced_toc)[k].depth = 0

\* A top-level node with a child two levels of segments apart: both have a
\* positive duration of their own, so the node's subtree total is larger than
\* its own duration.
C24_Witness ==
    /\ Resolved
    /\ \E k \in DOMAIN ValueOf(enhanced_toc) :
          /\ ValueOf(enhanced_toc)[k].sub_entries # <<>>
          /\ ValueOf(enhanced_toc)[k].duration > 0
          /\ ValueOf(enhanced_toc)[k].sub_entries[1].duration > 0
          /\ ValueOf(enhanced_toc)[k].sub_entries[1].depth = 1
          /\ total_duration(ValueOf(enhanced_toc)[k]) > ValueOf(enhanced_toc)[k].duration

\* The entry after position i of the flattened ToC, as next_entry is passed.
FollowerOf(i) == IF i < Len(PlainEntries) THEN <<PlainEntries[i + 1]>> ELSE <<>>

\* C25: the effective ToC is the one computed when the manifest was built;
\* the memo has exactly one key per node of it, distinct nodes have distinct
\* keys even when they share an href, and under each node's key lies that
\* node's own segment list, which is the list the enhanced node carries.
C25_MemoIsCompleteAndUnambiguous ==
    /\ manifest # NoManifest => effective_toc = Cached(EffectiveToc(manifest))
    /\ IsSet(segments_by_toc_id) =>
          /\ DOMAIN ValueOf(segments_by_toc_id)
                 = {PlainEntries[i].id : i \in DOMAIN PlainEntries}
          /\ \A i \in DOMAIN PlainEntries : \A j \in DOMAIN PlainEntries :
                PlainEntries[i].id = PlainEntries[j].id => i = j
          /\ \A i \in DOMAIN PlainEntries :
                SegmentsOf(audio_segments_for_toc_entry(PlainEntries[i], FollowerOf(i),
                                                        Tracks))
                    = [exc |-> "none",
                       value |-> ValueOf(segments_by_toc_id)[PlainEntries[i].id]]
    /\ (Resolved /\ ValueOf(enhanced_toc) # <<>>) =>
          /\ IsSet(segments_by_toc_id)
          /\ \A i \in DOMAIN EnhancedEntries :
                /\ EnhancedEntries[i].id \in DOMAIN ValueOf(segments_by_toc_id)
                /\ EnhancedEntries[i].href = PlainEntries[i].href
                /\ EnhancedEntries[i].audio_segments
                       = ValueOf(segments_by_toc_id)[PlainEntries[i].id]

\* A node and its first child share one href and have different segment
\* lists in the memo.
C25_Witness ==
    /\ Resolved
    /\ \E i \in 1..(Len(PlainEntries) - 1) :
          /\ PlainEntries[i].children # <<>>
          /\ PlainEntries[i + 1].href = PlainEntries[i].href
          /\ ValueOf(segments_by_toc_id)[PlainEntries[i].id]
                 # ValueOf(segments_by_toc_id)[PlainEntries[i + 1].id]

(***************************************************************************)
(* Claims about the inputs of the Audiobook (SpecLazy).                    *)
(***************************************************************************)
\* Every segment a cache holds.
CachedSegments ==
    (IF IsSet(segments_by_toc_id)
     THEN UNION {Range(ValueOf(segments_by_toc_id)[id]) :
                   id \in DOMAIN ValueOf(segments_by_toc_id)}
     ELSE {})
    \cup (IF IsSet(enhanced_toc)
          THEN UNION {Range(EnhancedEntries[i].audio_segments) :
                        i \in DOMAIN EnhancedEntries}
          ELSE {})
    \cup (IF IsSet(pre_toc_unplayed_audio_segments) THEN Range(PreToc) ELSE {})

\* The fields of a plain ToC node.
PlainFields == {"id", "href", "title", "children", "track_href", "track_offset"}

\* The track a segment refers to is a track of the Track List as it was given,
\* the plain nodes carry no derived field and the enhanced nodes repeat the
\* fields of the plain ones.
InputsAsGiven ==
    /\ effective_toc = Cached(EffectiveToc(manifest))
    /\ \A segment \in CachedSegments : segment.track \in Range(Tracks)
    /\ \A i \in DOMAIN PlainEntries : DOMAIN PlainEntries[i] = PlainFields
    /\ IsSet(enhanced_toc) =>
          /\ Len(EnhancedEntries) = Len(PlainEntries)
          /\ \A i \in DOMAIN EnhancedEntries :
                \A f \in PlainFields \ {"children"} :
                    EnhancedEntries[i][f] = PlainEntries[i][f]

\* C26: reading the cached properties in any order leaves the Track List and
\* the ToC tree as they were given: no step changes the manifest or its
\* effective ToC, every segment refers to a track as given and the derived
\* values are fields of the enhanced nodes only.
C26_InputsUnchanged ==
    /\ []InputsAsGiven
    /\ [][manifest' = manifest /\ effective_toc' = effective_toc]_vars

\* Every property was read on a manifest with a nested ToC and an unmeasured
\* track.
C26_Witness ==
    /\ \A p \in Properties : IsSet(CacheOf(p))
    /\ \E i \in DOMAIN PlainEntries : PlainEntries[i].children # <<>>
    /\ \E k \in DOMAIN Tracks : Tracks[k].actual_duration = 0
    /\ PreToc # <<>>

(***************************************************************************)
(* Further claims about one call (SpecEntry).                              *)
(***************************************************************************)
\* C27: whenever the references of the entry and of the next entry resolve,
\* the last-track index is one of 0..N-1 and not less than the first-track
\* index: the span never runs backwards and no index wraps around.
C27_LastTrackIndexInRange ==
    Returned =>
        /\ Bounds.last_track_index \in 0..(Len(call.tracks) - 1)
        /\ Bounds.last_track_index >= Bounds.first_track_index

(***************************************************************************)
(* SpecAgree: one entry resolved by the three implementations.             *)
(***************************************************************************)
\* parse_rwpm_audio_manifest.TrackSegment(track, start, end); hhmmss is the
\* duration printed by timedelta and is read by the report alone.
TrackSegment(track, start, end) ==
    [track |-> track, start |-> start, end |-> end, duration |-> end - start]

\* Mutant of LegacyBranch: offset 0 is tested before the same-track test.
LegacyBranch_OffsetFirst(entry, next_entry) ==
    IF next_entry = <<>> THEN "last"
    ELSE IF next_entry[1].track_offset = 0 THEN "previous"
    ELSE IF entry.track_href = next_entry[1].track_href THEN "same"
    ELSE "next"
\* The if / elif chain of get_track_sequence.
LegacyBranch(entry, next_entry) ==
    IF next_entry = <<>> THEN "last"
    ELSE IF entry.track_href = next_entry[1].track_href THEN "same"
    ELSE IF next_entry[1].track_offset = 0 THEN "previous"
    ELSE "next"

\* entry_last_track of get_track_sequence
LegacyLastTrack(branch, entry, next_entry, reading_order) ==
    CASE branch = "last" -> Len(reading_order) - 1
      [] branch = "same" -> track_index_by_href(reading_order)[entry.track_href]
      [] branch = "previous" ->
            track_index_by_href(reading_order)[next_entry[1].track_href] - 1
      [] OTHER -> track_index_by_href(reading_order)[next_entry[1].track_href]

\* entry_end_offset of get_track_sequence
LegacyEndOffset(branch, last, next_entry, reading_order) ==
    IF branch \in {"same", "next"} THEN next_entry[1].track_offset
    ELSE PyIndex(reading_order, last).duration

\* The list get_track_sequence returns for its first and last track.
LegacySequence(first, last, start, end, reading_order) ==
    <<TrackSegment(PyIndex(reading_order, first), start,
                   IF first = last THEN end ELSE PyIndex(reading_order, first).duration)>>
    \o [i \in DOMAIN PySlice(reading_order, first + 1, last) |->
          TrackSegment(PySlice(reading_order, first + 1, last)[i], 0,
                       PySlice(reading_order, first + 1, last)[i].duration)]
    \o (IF first = last THEN <<>>
        ELSE <<TrackSegment(PyIndex(reading_order, last), 0, end)>>)

LegacyResolved(branch, first, last, entry, next_entry, reading_order) ==
    [exc |-> "none",
     value |-> LegacySequence(first, last, entry.track_offset,
                              LegacyEndOffset(branch, last, next_entry, reading_order),
                              reading_order)]

\* get_track_sequence(entry, index, manifest): next_entry stands for
\* manifest.complete_toc[index + 1] (<<>> when index is the last one) and
\* reading_order for manifest.reading_order.
get_track_sequence(entry, next_entry, reading_order) ==
    IF entry.track_href \notin DOMAIN track_index_by_href(reading_order)
    THEN Raise("KeyError")
    ELSE IF /\ LegacyBranch(entry, next_entry) \in {"previous", "next"}
            /\ next_entry[1].track_href \notin DOMAIN track_index_by_href(reading_order)
    THEN Raise("KeyError")
    ELSE LegacyResolved(LegacyBranch(entry, next_entry),
                        track_index_by_href(reading_order)[entry.track_href],
                        LegacyLastTrack(LegacyBranch(entry, next_entry), entry,
                                        next_entry, reading_order),
                        entry, next_entry, reading_order)

\* interaction.audiobook.audio_segment.AudioSegment(track, start, end)
InteractionAudioSegment(track, start, end) ==
    [track |-> track, start |-> start, end |-> end, duration |-> end - start]

\* The branch of interaction.audiobook.audio_segment._toc_track_boundaries.
InteractionBranch(entry, next_entry) ==
    IF next_entry = <<>> THEN "last"
    ELSE IF entry.track_href = next_entry[1].track_href
            \/ next_entry[1].track_offset # 0 THEN "next"
    ELSE "previous"

\* end_track_index of interaction.audiobook.audio_segment._toc_track_boundaries
InteractionEndTrackIndex(branch, next_entry, all_tracks) ==
    CASE branch = "last" -> Len(all_tracks) - 1
      [] branch = "next" -> track_index_by_href(all_tracks)[next_entry[1].track_href]
      [] OTHER -> track_index_by_href(all_tracks)[next_entry[1].track_href] - 1

\* interaction.audiobook.audio_segment._toc_track_boundaries
InteractionBoundaries(entry, next_entry, all_tracks) ==
    IF InteractionBranch(entry, next_entry) = "last" /\ all_tracks = <<>>
    THEN Raise("IndexError")
    ELSE IF /\ InteractionBranch(entry, next_entry) # "last"
            /\ next_entry[1].track_href \notin DOMAIN track_index_by_href(all_tracks)
    THEN Raise("KeyError")
    ELSE IF entry.track_href \notin DOMAIN track_index_by_href(all_tracks)
    THEN Raise("KeyError")
    ELSE [exc |-> "none",
          first_track_index |-> track_index_by_href(all_tracks)[entry.track_href],
          first_track_start_offset |-> entry.track_offset,
          last_track_index |->
              InteractionEndTrackIndex(InteractionBranch(entry, next_entry),
                                       next_entry, all_tracks),
          last_track_end_offset |->
              IF InteractionBranch(entry, next_entry) = "next"
              THEN next_entry[1].track_offset
              ELSE PyIndex(all_tracks,
                           InteractionEndTrackIndex(InteractionBranch(entry, next_entry),
                                                    next_entry, all_tracks)).duration]

\* The list audio_segment_for_toc_entry assembles from the boundaries.
InteractionSequence(boundaries, tracks) ==
    <<InteractionAudioSegment(
          PyIndex(tracks, boundaries.first_track_index),
          boundaries.first_track_start_offset,
          IF boundaries.first_track_index = boundaries.last_track_index
          THEN boundaries.last_track_end_offset
          ELSE PyIndex(tracks, boundaries.first_track_index).duration)>>
    \o [i \in DOMAIN PySlice(tracks, boundaries.first_track_index + 1,
                             boundaries.last_track_index) |->
          InteractionAudioSegment(
              PySlice(tracks, boundaries.first_track_index + 1,
                      boundaries.last_track_index)[i], 0,
              PySlice(tracks, boundaries.first_track_index + 1,
                      boundaries.last_track_index)[i].duration)]
    \o (IF boundaries.first_track_index = boundaries.last_track_index THEN <<>>
        ELSE <<InteractionAudioSegment(PyIndex(tracks, boundaries.last_track_index), 0,
                                       boundaries.last_track_end_offset)>>)

InteractionResult(boundaries, tracks) ==
    IF boundaries.exc # "none" THEN Raise(boundaries.exc)
    ELSE [exc |-> "none", value |-> InteractionSequence(boundaries, tracks)]

\* interaction.audiobook.audio_segment.audio_segment_for_toc_entry
audio_segment_for_toc_entry(entry, next_entry, tracks) ==
    InteractionResult(InteractionBoundaries(entry, next_entry, tracks), tracks)

\* The same entry, next entry and track list given to the three functions.
ResolveThrice ==
    /\ ret = Unset
    /\ ret' = Cached([legacy |-> get_track_sequence(call.entry, call.next_entry,
                                                    call.tracks),
                      interaction |-> audio_segment_for_toc_entry(
                                          call.entry, call.next_entry, call.tracks),
                      internal |-> SegmentsOf(audio_segments_for_toc_entry(
                                          call.entry, call.next_entry, call.tracks))])
    /\ UNCHANGED <<call, readers, validation, oauth, bookVars>>

NextAgree == ResolveThrice

SpecAgree == InitEntry /\ [][NextAgree]_vars

(***************************************************************************)
(* Claims about the three implementations (SpecAgree).                     *)
(***************************************************************************)
\* (track href, start, end) of a result's segments, in order.
Triples(result) ==
    [i \in DOMAIN result.value |->
        <<result.value[i].track.href, result.value[i].start, result.value[i].end>>]

\* C28: get_track_sequence, the client_utils audio_segment_for_toc_entry and
\* the palace_tools audio_segments_for_toc_entry return for the same track
\* list, entry and next entry (or none) the same ordered list of
\* (track, start, end) segments, and each returns whenever another does.
C28_ThreeImplementationsAgree ==
    IsSet(ret) =>
        /\ (ValueOf(ret).legacy.exc = "none") = (ValueOf(ret).internal.exc = "none")
        /\ (ValueOf(ret).interaction.exc = "none") = (ValueOf(ret).internal.exc = "none")
        /\ ValueOf(ret).internal.exc = "none" =>
              /\ Triples(ValueOf(ret).legacy) = Triples(ValueOf(ret).internal)
              /\ Triples(ValueOf(ret).interaction) = Triples(ValueOf(ret).internal)

\* The three returned for an entry whose next entry is on the same track at
\* offset 0, where the order of the legacy tests matters.
C28_Witness ==
    /\ IsSet(ret)
    /\ ValueOf(ret).legacy.exc = "none"
    /\ call.next_entry # <<>>
    /\ call.next_entry[1].track_href = call.entry.track_href
    /\ call.next_entry[1].track_offset = 0
    /\ Len(call.tracks) >= 2

(***************************************************************************)
(* SpecAuth: OAuthAuth.auth_flow, one server response per step.            *)
(*   oauth is the OAuthAuth object; call is the frame of the running flow: *)
(*   the request it waits on, its locals and what it has yielded so far.   *)
(***************************************************************************)
\* Status codes and access tokens the server answers with; None stands for a
\* token response without "access_token".
Statuses == {200, 401, 404, 500}
ServerTokens == {None, "t1", "t2"}

\* f"Bearer {self.token}"
Bearer(token) == <<"Bearer", token>>

OAuthAuth(token, oauth_url, parse_links) ==
    [token |-> token, oauth_url |-> oauth_url, parse_links |-> parse_links]

\* The frame of a flow that has not run yet.
NoFlow ==
    [pc |-> "none", retry |-> FALSE, token_refreshed |-> FALSE,
     sent |-> <<>>, responses |-> <<>>, refreshes |-> 0]

\* `yield request` with the Authorization header set from self.token.
YieldRequest(frame, pc, token) ==
    [frame EXCEPT !.pc = pc,
                  !.sent = Append(@, [authorization |-> Bearer(token),
                                      refreshes |-> frame.refreshes])]

\* refresh_token up to its first yield: the feed when the OAuth URL is not
\* known, the token request otherwise.
EnterRefreshToken(frame, auth, retry) ==
    [frame EXCEPT !.pc = IF auth.oauth_url = None THEN "feed" ELSE "token",
                  !.retry = retry,
                  !.refreshes = @ + 1]

\* sys.exit(-1)
Exit(frame) == [frame EXCEPT !.pc = "exit"]

\* Mutant of NeedsRefresh: a 401 is answered with a refresh even when the
\* token was refreshed earlier in the flow.
NeedsRefresh_Always(status_code, token_refreshed) == status_code = 401
\* response.status_code == 401 and not token_refreshed
NeedsRefresh(status_code, token_refreshed) == status_code = 401 /\ ~token_refreshed

InitAuth ==
    /\ oauth \in {OAuthAuth(None, None, parse_links) : parse_links \in BOOLEAN}
                 \cup {OAuthAuth("t0", "url", parse_links) : parse_links \in BOOLEAN}
    /\ call = NoFlow
    /\ ret = Unset
    /\ manifest = NoManifest
    /\ effective_toc = Unset
    /\ segments_by_toc_id = Unset
    /\ enhanced_toc = Unset
    /\ pre_toc_unplayed_audio_segments = Unset
    /\ toc_total_duration = Unset
    /\ toc_actual_total_duration = Unset
    /\ raised = "none"
    /\ readers = NoReaders
    /\ validation = NoValidation

\* auth_flow(request) up to its first yield
StartFlow ==
    /\ call.pc \in {"none", "done"}
    /\ call' = IF oauth.oauth_url = None \/ oauth.token = None
               THEN EnterRefreshToken(NoFlow, oauth, FALSE)
               ELSE YieldRequest(NoFlow, "request", oauth.token)
    /\ UNCHANGED <<oauth, ret, readers, validation, bookVars>>

\* refresh_auth_url after the feed's response: a 200 that parse_links can
\* read leads to the authentication document, a 401 is the document.
FeedResponse ==
    /\ call.pc = "feed"
    /\ \E status_code \in Statuses, has_link \in BOOLEAN, valid_document \in BOOLEAN :
          IF status_code = 200 /\ oauth.parse_links
          THEN /\ call' = IF has_link THEN [call EXCEPT !.pc = "auth_doc"] ELSE Exit(call)
               /\ UNCHANGED oauth
          ELSE IF status_code = 401 /\ valid_document
          THEN /\ oauth' = [oauth EXCEPT !.oauth_url = "url"]
               /\ call' = [call EXCEPT !.pc = "token"]
          ELSE /\ call' = Exit(call)
               /\ UNCHANGED oauth
    /\ UNCHANGED <<ret, readers, validation, bookVars>>

\* refresh_auth_url after the authentication document's response; the
\* document is valid when its content type is the OPDS one and it holds one
\* client-credentials link.
AuthDocResponse ==
    /\ call.pc = "auth_doc"
    /\ \E status_code \in Statuses, valid_document \in BOOLEAN :
          IF status_code = 200 /\ valid_document
          THEN /\ oauth' = [oauth EXCEPT !.oauth_url = "url"]
               /\ call' = [call EXCEPT !.pc = "token"]
          ELSE /\ call' = Exit(call)
               /\ UNCHANGED oauth
    /\ UNCHANGED <<ret, readers, validation, bookVars>>

\* refresh_token after the token response, and auth_flow up to its next
\* yield: the request, or the resend when the refresh followed a 401.
TokenResponse ==
    /\ call.pc = "token"
    /\ \E status_code \in Statuses, access_token \in ServerTokens :
          IF status_code # 200 \/ access_token = None
          THEN /\ call' = Exit(call)
               /\ UNCHANGED oauth
          ELSE /\ oauth' = [oauth EXCEPT !.token = access_token]
               /\ call' = IF call.retry
                          THEN YieldRequest(call, "resend", access_token)
                          ELSE YieldRequest([call EXCEPT !.token_refreshed = TRUE],
                                            "request", access_token)
    /\ UNCHANGED <<ret, readers, validation, bookVars>>

\* auth_flow after the response to the request
RequestResponse ==
    /\ call.pc = "request"
    /\ \E status_code \in Statuses :
          call' = IF NeedsRefresh(status_code, call.token_refreshed)
                  THEN EnterRefreshToken(
                           [call EXCEPT !.responses = Append(@, status_code)],
                           oauth, TRUE)
                  ELSE [call EXCEPT !.pc = "done",
                                    !.responses = Append(@, status_code)]
    /\ UNCHANGED <<oauth, ret, readers, validation, bookVars>>

\* auth_flow after the response to the resend: the generator returns.
ResendResponse ==
    /\ call.pc = "resend"
    /\ \E status_code \in Statuses :
          call' = [call EXCEPT !.pc = "done", !.responses = Append(@, status_code)]
    /\ UNCHANGED <<oauth, ret, readers, validation, bookVars>>

NextAuth ==
    \/ StartFlow
    \/ FeedResponse
    \/ AuthDocResponse
    \/ TokenResponse
    \/ RequestResponse
    \/ ResendResponse

SpecAuth == InitAuth /\ [][NextAuth]_vars

(***************************************************************************)
(* Claims about one flow (SpecAuth).                                       *)
(***************************************************************************)
\* C30: in one flow the request is sent at most twice and the token is
\* refreshed at most once; every send carries a Bearer token; a 401 to the
\* request starts a refresh exactly when no refresh came earlier in the
\* flow, the one resend that follows carries the token of that refresh, and
\* the flow ends with the second response or with a first response that
\* starts no refresh.
C30_AtMostOneRefreshAndOneResend ==
    /\ Len(call.sent) <= 2
    /\ call.refreshes <= 1
    /\ \A i \in DOMAIN call.sent :
          /\ call.sent[i].authorization[1] = "Bearer"
          /\ call.sent[i].authorization[2] # None
    /\ Len(call.responses) >= 1 =>
          /\ (call.responses[1] = 401 /\ call.sent[1].refreshes = 0)
                 <=> (call.retry /\ call.refreshes = 1)
          /\ ~call.retry => (call.pc = "done" /\ Len(call.sent) = 1)
          /\ call.retry => call.pc \in {"feed", "auth_doc", "token", "exit",
                                         "resend", "done"}
    /\ Len(call.sent) = 2 =>
          /\ call.responses # <<>> /\ call.responses[1] = 401
          /\ call.sent[1].refreshes = 0
          /\ call.sent[2].refreshes = 1
          /\ call.sent[2].authorization = Bearer(oauth.token)
    /\ call.pc = "resend" => Len(call.sent) = 2 /\ Len(call.responses) = 1
    /\ Len(call.responses) = 2 => (call.pc = "done" /\ Len(call.sent) = 2)

\* A flow whose request got a 401 refreshed the token, resent the request
\* with the new token, got a 401 again and ended.
C30_Witness ==
    /\ call.pc = "done"
    /\ ~call.token_refreshed
    /\ call.responses = <<401, 401>>
    /\ call.sent[1].authorization # call.sent[2].authorization

(***************************************************************************)
(* SpecMeasured: the Audiobook of a manifest whose track files were        *)
(* measured and last as long as declared.                                  *)
(***************************************************************************)
\* Audiobook.from_manifest_file: each track whose file exists gets the
\* file's length as actual_duration; lengths[i] is <<>> for a missing file.
from_manifest_file(m, lengths) ==
    [m EXCEPT !.reading_order =
        [i \in DOMAIN m.reading_order |->
            IF lengths[i] # <<>>
            THEN [m.reading_order[i] EXCEPT !.actual_duration = lengths[i][1]]
            ELSE m.reading_order[i]]]

\* The lengths of files that last as long as their tracks declare.
DeclaredLengths(m) == [i \in DOMAIN m.reading_order |-> <<m.reading_order[i].duration>>]

InitMeasured ==
    /\ manifest \in {from_manifest_file(m, DeclaredLengths(m)) : m \in Manifests}
    /\ effective_toc = Cached(EffectiveToc(manifest))
    /\ segments_by_toc_id = Unset
    /\ enhanced_toc = Unset
    /\ pre_toc_unplayed_audio_segments = Unset
    /\ toc_total_duration = Unset
    /\ toc_actual_total_duration = Unset
    /\ raised = "none"
    /\ call = NoCall
    /\ ret = Unset
    /\ readers = NoReaders
    /\ validation = NoValidation
    /\ oauth = NoToken

SpecMeasured == InitMeasured /\ [][Next]_vars

(***************************************************************************)
(* Claims about measured manifests (SpecMeasured).                         *)
(***************************************************************************)
AllMeasuredAsDeclared ==
    \A k \in DOMAIN Tracks : Tracks[k].actual_duration = Tracks[k].duration

\* C29: when every track was measured as long as it declares, every
\* segment's end_actual is its end and its actual duration its declared
\* duration, every entry's actual duration is its declared duration and the
\* book's actual total is its declared total.
C29_ExactMeasurementsGiveDeclaredDurations ==
    (AllMeasuredAsDeclared /\ Resolved) =>
        /\ \A i \in DOMAIN EnhancedEntries :
              /\ EnhancedEntries[i].actual_duration = EnhancedEntries[i].duration
              /\ \A j \in DOMAIN EnhancedEntries[i].audio_segments :
                    /\ EnhancedEntries[i].audio_segments[j].end_actual
                           = EnhancedEntries[i].audio_segments[j].end
                    /\ EnhancedEntries[i].audio_segments[j].actual_duration
                           = EnhancedEntries[i].audio_segments[j].duration
        /\ \A j \in DOMAIN PreToc :
              /\ PreToc[j].end_actual = PreToc[j].end
              /\ PreToc[j].actual_duration = PreToc[j].duration
        /\ ValueOf(toc_actual_total_duration) = ValueOf(toc_total_duration)

\* A measured book with an entry that starts inside a track and spans more
\* than one track, and a book total above zero.
C29_Witness ==
    /\ AllMeasuredAsDeclared /\ Resolved
    /\ ValueOf(toc_actual_total_duration) > 0
    /\ \E i \in DOMAIN EnhancedEntries :
          /\ Len(EnhancedEntries[i].audio_segments) >= 2
          /\ EnhancedEntries[i].audio_segments[1].start > 0
          /\ EnhancedEntries[i].audio_segments[1].actual_duration > 0

====
